---- MODULE Spec2Model ----
(***************************************************************************)
(* DeckCheck actor substrate: the scheduler's overlap guard, the Extractor *)
(* and Critic jobs, the process-wide session Logger and the Firestore      *)
(* collections decks, decks/{id}/pages, decks/{id}/insights and aiCosts.   *)
(*                                                                         *)
(* Every `await` of the source is a suspension point.  A call that reads   *)
(* or writes decks, pages or insights is two steps: the store executes the *)
(* call (…Op), then the caller's continuation runs (…Ret) up to the next   *)
(* call it issues.  Calls that touch nothing another actor reads (blob     *)
(* download, pdf-parse, OpenAI, the aiCosts / automationLogs appends) are  *)
(* one step.  automationLogs is append-only and read by no actor, so the    *)
(* collection is not accumulated: the record of an append is the session   *)
(* as add() serializes it, in the step that issues the call (the step that *)
(* moves the invocation to "endAdd").                                      *)
(***************************************************************************)
EXTENDS Integers, Sequences, FiniteSets, TLC

\* ---------------------------------------------------------------- bounds
NumDecks == 1          \* deck documents that can be uploaded (one process)
NumDecks2 == 1         \* deck documents that can be uploaded (two processes)
MaxPages == 3          \* largest numpages pdf-parse reports for a file
MaxPages2 == 2         \* the same, for a file uploaded with two processes
MaxFaults == 2         \* calls that throw in one behaviour (one process)
MaxFaults2 == 1        \* calls that throw in one behaviour (two processes)
MaxTicks2 == 3         \* timer ticks that run a body (two processes)
MaxErrors == 2         \* Logger.error calls in one session (Logger alone)
NumDecksQ == 2         \* deck documents that can be uploaded (deck queue)
MaxFaultsQ == 1        \* calls that throw in one behaviour (deck queue)
MaxTicksQ == 4         \* timer ticks that run a body (deck queue)
MaxTokens == 3         \* largest token count passed to calculateCost
MaxLen == 5            \* longest text pdf-parse returns (text pipeline)
MaxNumPages == 3       \* largest numpages pdf-parse returns (text pipeline)

\* ------------------------------------------------------ program constants
DeckScanLimit == 10    \* .limit(10) of the Critic's deck query
InsightTypes == 1      \* expectedInsights = pageCount * 1

Extractor == "Extract PDF Pages"
Critic == "Critique Problem Statements"
Jobs == {Extractor, Critic}

UPLOADED == "uploaded"
EXTRACTING == "extracting"
ANALYZING == "analyzing"
COMPLETE == "complete"
ERROR == "error"
ABSENT == "absent"     \* the document does not exist yet

NoDeck == 0
NoSession == [action |-> "none"]
NoStatus == "none"              \* endSession called without params.status
NoMetadata == -1                \* metadata: {}, no pageCount in it
\* deck ids; a configuration uploads the first uploadsLeft of them
Decks == 1..(IF NumDecksQ > NumDecks /\ NumDecksQ > NumDecks2 THEN NumDecksQ
             ELSE IF NumDecks2 > NumDecks THEN NumDecks2 ELSE NumDecks)
PageNums == 1..MaxPages
Slots == {1, 2}       \* invocation slots per job (the guard lets one be used)

VARIABLES
    procs,        \* scheduler processes running against the store
    escapes,      \* exceptions that escaped a job body into preventOverlap
    costCall,     \* a call of calculateCost: its arguments and its result
    extraction,   \* a run of extractPDFText and createPageDocuments on a text
    decks,        \* decks collection: id -> document
    files,        \* blob storage: id -> numpages of the uploaded PDF
    pages,        \* decks/{id}/pages: id -> (pageNumber -> number of docs)
    insights,     \* decks/{id}/insights: id -> (pageNumber -> number of
                  \* docs); every Insight written has type 'problem'
    ratings,      \* id -> (pageNumber -> the ratings of the page's Insights)
    aiCosts,      \* aiCosts collection: deckId -> (pageNumber -> number of
                  \* docs); every record has actor 'Critic', action
                  \* 'critique_problem'
    clock,        \* Timestamp.now() as a logical clock
    runningJobs,  \* per process: the scheduler's Map<string, boolean>
    logger,       \* per process: the Logger singleton
    inv,          \* per process, job and slot: an invocation of the body
    claims,       \* per deck: claim writes ('extracting') applied to it
    faultsLeft,   \* external calls that may still throw
    uploadsLeft,  \* decks that may still be uploaded
    capTicks,     \* whether the number of ticks is capped
    ticksLeft     \* when capped: ticks that may still run a body

vars == <<procs, escapes, costCall, extraction, aiCosts, ratings, decks, files, pages, insights, clock, runningJobs, logger,
          inv, claims, faultsLeft, uploadsLeft, capTicks, ticksLeft>>

\* ---------------------------------------- pricing (openai-pricing.ts)
\* A JavaScript number: a finite value or NaN.  Costs are kept exactly, in
\* billionths of a dollar (tokens times thousandths of a dollar per 1M
\* tokens), so that (tokens / 1_000_000) * price has no fraction.
Num(n) == [nan |-> FALSE, val |-> n]
NaN == [nan |-> TRUE, val |-> 0]

\* x === y on numbers: NaN equals nothing, not even NaN
NumEquals(x, y) == ~x.nan /\ ~y.nan /\ x.val = y.val

NumTimes(x, y) == IF x.nan \/ y.nan THEN NaN ELSE Num(x.val * y.val)
NumPlus(x, y) == IF x.nan \/ y.nan THEN NaN ELSE Num(x.val + y.val)

\* the keys of the MODEL_PRICING object literal
PricedModels ==
    {"gpt-4o", "gpt-4o-2024-11-20", "gpt-4o-mini", "gpt-4o-mini-2024-07-18",
     "gpt-4-turbo", "gpt-4-turbo-2024-04-09", "gpt-3.5-turbo",
     "gpt-3.5-turbo-0125"}

\* MODEL_PRICING: USD per 1M tokens, here in thousandths of a dollar
MODEL_PRICING ==
    [m \in PricedModels |->
        CASE m \in {"gpt-4o", "gpt-4o-2024-11-20"} ->
                 [input |-> 2500, output |-> 10000]
          [] m \in {"gpt-4o-mini", "gpt-4o-mini-2024-07-18"} ->
                 [input |-> 150, output |-> 600]
          [] m \in {"gpt-4-turbo", "gpt-4-turbo-2024-04-09"} ->
                 [input |-> 10000, output |-> 30000]
          [] OTHER -> [input |-> 500, output |-> 1500]]

\* names that are no key of the table and no member of Object.prototype
UnknownNames == {"unknown-model-xyz", "gpt-5", ""}

\* names MODEL_PRICING inherits from Object.prototype: the table is a plain
\* object literal, so MODEL_PRICING[name] is that member, not undefined
ObjectPrototypeNames == {"constructor", "toString", "__proto__"}

ModelNames == PricedModels \cup UnknownNames \cup ObjectPrototypeNames
TokenCounts == 0..MaxTokens

\* MODEL_PRICING[model]: the own entry, an inherited member, or undefined
Lookup(model) ==
    IF model \in DOMAIN MODEL_PRICING
    THEN [kind |-> "pricing", input |-> MODEL_PRICING[model].input,
          output |-> MODEL_PRICING[model].output]
    ELSE IF model \in ObjectPrototypeNames
    THEN [kind |-> "inherited", input |-> 0, output |-> 0]
    ELSE [kind |-> "undefined", input |-> 0, output |-> 0]

\* pricing.input / pricing.output as an operand: a member of
\* Object.prototype has no such property, and undefined in a product is NaN
PricingInput(pricing) ==
    IF pricing.kind = "pricing" THEN Num(pricing.input) ELSE NaN
PricingOutput(pricing) ==
    IF pricing.kind = "pricing" THEN Num(pricing.output) ELSE NaN

\* if (!pricing)
FallsBack(pricing) == pricing.kind = "undefined"

RECURSIVE calculateCost(_, _, _)
calculateCost(model, promptTokens, completionTokens) ==
    LET pricing == Lookup(model) IN
    IF FallsBack(pricing)
    THEN calculateCost("gpt-4o-mini", promptTokens, completionTokens)
    ELSE LET inputCost == NumTimes(Num(promptTokens), PricingInput(pricing))
             outputCost ==
                 NumTimes(Num(completionTokens), PricingOutput(pricing))
         IN NumPlus(inputCost, outputCost)

\* no call of calculateCost is being looked at
NoCall == [model |-> "none", promptTokens |-> 0, completionTokens |-> 0,
           state |-> "none", usd |-> NaN]

\* ------------------------------------------------------------- helpers
Min(a, b) == IF a < b THEN a ELSE b

RECURSIVE SumTo(_, _)
SumTo(f, n) == IF n = 0 THEN 0 ELSE f[n] + SumTo(f, n - 1)

\* snapshot.size of a pages / insights subcollection
CollSize(bag) == SumTo(bag, MaxPages)

EmptyBag == [n \in PageNums |-> 0]

RECURSIVE Repeat(_, _)
Repeat(x, k) == IF k = 0 THEN <<>> ELSE <<x>> \o Repeat(x, k - 1)

RECURSIVE BagSeqFrom(_, _)
BagSeqFrom(bag, n) ==
    IF n > MaxPages THEN <<>>
    ELSE Repeat(n, bag[n]) \o BagSeqFrom(bag, n + 1)

RECURSIVE Reverse(_)
Reverse(q) == IF q = <<>> THEN <<>> ELSE Reverse(Tail(q)) \o <<Head(q)>>

\* a pages query ordered by pageNumber descending
PagesQueryDesc(d) == Reverse(BagSeqFrom(pages[d], 1))

\* .collection(PAGES).orderBy('pageNumber', 'asc').get()
PagesQuery(d) == BagSeqFrom(pages[d], 1)

\* outcomes of an external call: TRUE = resolves, FALSE = throws
Outcomes == IF faultsLeft > 0 THEN {TRUE, FALSE} ELSE {TRUE}
Charge(ok) == faultsLeft' = IF ok THEN faultsLeft ELSE faultsLeft - 1

\* An invocation of a job body: where it is suspended (pc) and its locals.
\* At "...Q" the call is issued, at "...R" it has been answered.
\* overlap records whether an invocation of the other job of the process
\* was in flight at any time during this one; mixed whether the record this
\* invocation passed to automationLogs.add() held content of another job;
\* seen the ids of the decks snapshot while findPageToCritique scans it.
IdleInv == [pc |-> "idle", deck |-> NoDeck, n |-> 0,
            snap |-> <<>>, pgs |-> <<>>, page |-> 0, cnt |-> 0, ts |-> 0,
            failed |-> FALSE, msg |-> "", target |-> NoDeck,
            overlap |-> FALSE, mixed |-> FALSE,
            lost |-> FALSE, rating |-> 0, calls |-> 0, costs |-> 0, made |-> 0,
            seen |-> {}]

InFlight(p, j) == {s \in Slots : inv[p][j][s].pc # "idle"}

\* Logger.endSession has returned to an invocation of process p and the
\* continuation of `await Logger.endSession(...)` is queued as a microtask.
\* Until it has run, the event loop of p takes no timer and no I/O event:
\* of p's other invocations only continuations of calls that were already
\* answered run before it.
MicrotaskPending(p) == \E j \in Jobs, s \in Slots : inv[p][j][s].pc = "endR"

NewDeck(d) == [status |-> UPLOADED, pageCount |-> 0, processedAt |-> 0,
               errorMessage |-> ""]
NoDoc == [status |-> ABSENT, pageCount |-> 0, processedAt |-> 0,
          errorMessage |-> ""]

\* ------------------------------------------------------------- Logger
\* logs holds the messages of the buffered entries (their order and
\* timestamps are dropped); session.appends counts the calls of add() that
\* were passed this session object.
NewLogger == [session |-> NoSession, deckContext |-> NoDeck, logs |-> {}]

StartSession(L, action) ==
    [session |-> [action |-> action, deckId |-> NoDeck,
                  status |-> "completed", errors |-> <<>>,
                  metadata |-> NoMetadata, appends |-> 0],
     deckContext |-> NoDeck,
     logs |-> {}]

\* a setDeckContext that forgets the session's deckId
SetDeckContextOnly(L, d) == [L EXCEPT !.deckContext = d]

\* this.deckContext = context; if (this.session) session.deckId = deckId
SetDeckContext(L, d) ==
    [L EXCEPT !.deckContext = d,
              !.session = IF @ = NoSession THEN @ ELSE [@ EXCEPT !.deckId = d]]

\* add(message): this.logs.push(logEntry), with or without a session
LoggerAdd(L, message) == [L EXCEPT !.logs = @ \cup {message}]

\* error(message, error): pushes `${message}: ${errorMessage}`
LoggerError(L, message, error) ==
    IF L.session = NoSession THEN L
    ELSE [L EXCEPT !.session.errors = Append(@, <<message, error>>),
                   !.session.status = "failed"]

\* an endSession that resets the Logger before it looks for a session
EndSessionBeginClears(L, status) ==
    IF L.session = NoSession THEN NewLogger
    ELSE [L EXCEPT !.session.status = IF status = NoStatus THEN @ ELSE status,
                   !.session.appends = @ + 1]

\* an endSession that defaults a missing status to 'completed'
EndSessionBeginDefaults(L, status) ==
    IF L.session = NoSession THEN L
    ELSE [L EXCEPT !.session.status =
                       IF status = NoStatus THEN "completed" ELSE status,
                   !.session.appends = @ + 1]

\* endSession up to its `await db.collection(AUTOMATION_LOGS).add(...)`
EndSessionBegin(L, status) ==
    IF L.session = NoSession THEN L
    ELSE [L EXCEPT !.session.status = IF status = NoStatus THEN @ ELSE status,
                   !.session.appends = @ + 1]

\* an endSession that drops params.metadata
EndSessionMetadataDropped(L, pageCount) == L

\* endSession: if (params?.metadata) session.metadata = {...metadata, ...}
EndSessionMetadata(L, pageCount) ==
    IF L.session = NoSession THEN L
    ELSE [L EXCEPT !.session.metadata = pageCount]

\* the document add(this.session) serializes when it is called
AutomationLog(L) ==
    [action |-> L.session.action, deckId |-> L.session.deckId,
     status |-> L.session.status, errors |-> L.session.errors,
     metadata |-> L.session.metadata, logs |-> L.logs]

\* an endSession that forgets to reset the deck context
EndSessionClearKeepsContext(L) == [NewLogger EXCEPT !.deckContext = L.deckContext]

\* endSession after the append resolved or threw: clear session
EndSessionClear(L) == NewLogger

GetDeckContext(L) == L.deckContext

\* ------------------------------------------------- scheduler (index.ts)
\* a guard that never sees the flag
GuardBusyNever(p, j) == FALSE

\* a guard with one flag for all jobs
GuardBusyAny(p, j) == \E k \in Jobs : runningJobs[p][k]

\* if (runningJobs.get(jobName)) { skip }
GuardBusy(p, j) == runningJobs[p][j]

\* a cleanup that leaves the flag set
FinallyFlagStuck == TRUE

\* finally { runningJobs.set(jobName, false) }
FinallyFlag == FALSE

FirstCall(j) == IF j = Extractor THEN "findQ" ELSE "decksQ"
SessionAction(j) == IF j = Extractor THEN "extract_pdf" ELSE "critique_problem"

FreeSlot(p, j) == CHOOSE s \in Slots \ InFlight(p, j) :
                      \A t \in Slots \ InFlight(p, j) : s <= t

\* the invocations of process p once a tick has started the body of job j
Started(p, j) ==
    LET busy == \E k \in Jobs \ {j} : InFlight(p, k) # {}
    IN [k \in Jobs |-> [s \in Slots |->
          IF k = j /\ s = FreeSlot(p, j)
          THEN [IdleInv EXCEPT !.pc = FirstCall(j), !.overlap = busy]
          ELSE IF k # j /\ inv[p][k][s].pc # "idle"
          THEN [inv[p][k][s] EXCEPT !.overlap = TRUE]
          ELSE inv[p][k][s]]]

\* A tick that finds the job busy: logs the skip to the console and returns.
TickSkip(p, j) ==
    /\ p \in procs
    /\ ~MicrotaskPending(p)
    /\ GuardBusy(p, j)
    /\ UNCHANGED vars

\* A tick that runs the body: sets busy, then jobFn() runs synchronously up
\* to its first await (Logger.startSession, then the work finder's query).
TickRun(p, j) ==
    /\ p \in procs
    /\ ~MicrotaskPending(p)
    /\ ~GuardBusy(p, j)
    /\ InFlight(p, j) # Slots
    /\ capTicks => ticksLeft > 0
    /\ ticksLeft' = IF capTicks THEN ticksLeft - 1 ELSE ticksLeft
    /\ runningJobs' = [runningJobs EXCEPT ![p][j] = TRUE]
    /\ logger' = [logger EXCEPT ![p] = StartSession(@, SessionAction(j))]
    /\ inv' = [inv EXCEPT ![p] = Started(p, j)]
    /\ UNCHANGED <<procs, escapes, costCall, extraction, aiCosts, ratings, decks, files, pages, insights, clock, claims,
                   faultsLeft, uploadsLeft, capTicks>>

\* --------------------------------------------- common continuation pieces
\* the invocation moves to record r and the process's Logger becomes L
Goto(p, j, s, r, L) ==
    /\ inv' = [inv EXCEPT ![p][j][s] = r]
    /\ logger' = [logger EXCEPT ![p] = L]

\* Logger.error('PDF extraction failed', error) / ('Critique failed', error)
FailMessage(j) ==
    IF j = Extractor THEN "PDF extraction failed" ELSE "Critique failed"

\* the messages job j passes to Logger.add
Messages(j) ==
    IF j = Extractor
    THEN {"Downloading PDF from storage", "Extracting text from PDF",
          "Creating page documents", "PDF extraction complete"}
    ELSE {"Analyzing page", "Critique complete", "Insight saved to Firestore",
          "Deck analysis complete!"}

\* record rec holds something an invocation of job j working on deck d did
\* not put there: another action, another deck id, another job's log
\* entries or error strings
Foreign(rec, j, d) ==
    \/ rec.action # SessionAction(j)
    \/ rec.deckId \notin {NoDeck, d}
    \/ ~(rec.logs \subseteq Messages(j))
    \/ \E i \in 1..Len(rec.errors) : rec.errors[i][1] # FailMessage(j)

\* `await Logger.endSession({status})`: returns at once without a session,
\* otherwise suspends on the automationLogs append.
CallEndSession(p, j, s, r, L, status) ==
    IF L.session = NoSession
    THEN Goto(p, j, s, [r EXCEPT !.pc = "endR"], EndSessionBegin(L, status))
    ELSE Goto(p, j, s,
              [r EXCEPT !.pc = "endAdd",
                        !.mixed = Foreign(AutomationLog(EndSessionBegin(L, status)),
                                          j, r.deck)],
              EndSessionBegin(L, status))

\* catch (error) { Logger.error(...); await Logger.endSession({failed}) }
Catch(p, j, s, r, message) ==
    CallEndSession(p, j, s,
                   [r EXCEPT !.failed = TRUE, !.msg = message, !.seen = {}],
                   LoggerError(logger[p], FailMessage(j), message), "failed")

\* the body returned (or threw into preventOverlap's catch): finally
Finish(p, j, s) ==
    /\ inv' = [inv EXCEPT ![p][j][s] = IdleInv]
    /\ runningJobs' = [runningJobs EXCEPT ![p][j] = FinallyFlag]

\* a wrapper without the catch: the rejection is unhandled and ends the
\* process
AfterEscapeCrash(p) == procs \ {p}

\* catch (error) { console.error(...) }: the wrapper's promise resolves and
\* the process goes on
AfterEscape(p) == procs

\* const deckContext = Logger.getDeckContext(); if (deckContext.deckId) ...
ErrorTarget(p) == GetDeckContext(logger[p])

\* an endSession that lets the append's error escape to its caller
AppendRethrown(r, ok) ==
    [r EXCEPT !.pc = "endR", !.lost = ~ok, !.failed = @ \/ ~ok]

\* try { await add(this.session) } catch (error) { console.error(...) }:
\* the caller sees nothing of a failed append (lost only records it)
AppendCaught(r, ok) == [r EXCEPT !.pc = "endR", !.lost = ~ok]

\* the automationLogs append resolves or throws (swallowed); endSession
\* then clears the Logger
EndSessionAdd(p, j, s) ==
    /\ inv[p][j][s].pc = "endAdd"
    /\ ~MicrotaskPending(p)
    /\ \E ok \in Outcomes :
          /\ Charge(ok)
          /\ Goto(p, j, s, AppendCaught(inv[p][j][s], ok),
                  EndSessionClear(logger[p]))
    /\ UNCHANGED <<procs, escapes, costCall, extraction, aiCosts, ratings, decks, files, pages, insights, clock, runningJobs,
                   claims, uploadsLeft,
                   capTicks, ticksLeft>>

\* the caller resumes after `await Logger.endSession(...)`
EndSessionRet(p, j, s) ==
    LET r == inv[p][j][s] IN
    /\ r.pc = "endR"
    /\ IF j = Extractor /\ r.failed /\ ErrorTarget(p) # NoDeck
       THEN /\ Goto(p, j, s,
                    [r EXCEPT !.pc = "errQ", !.target = ErrorTarget(p),
                              !.lost = FALSE],
                    logger[p])
            /\ UNCHANGED runningJobs
       ELSE /\ Finish(p, j, s)
            /\ UNCHANGED logger
    /\ UNCHANGED <<procs, escapes, costCall, extraction, aiCosts, ratings, decks, files, pages, insights, clock, 
                   claims, faultsLeft, uploadsLeft,
                   capTicks, ticksLeft>>

\* -------------------------------------------- page texts (Extractor)
\* A text is a sequence of characters: a letter or one of two whitespace
\* characters (both are matched by \s and stripped by trim()).
Whitespace == {" ", "\n"}
Alphabet == {"a"} \cup Whitespace
Texts == UNION {[1..n -> Alphabet] : n \in 0..MaxLen}

\* s.substring(start, end) with 0-based indices: both are clamped to the
\* length and swapped when start > end
Substring(s, start, end) ==
    LET a == Min(start, Len(s))
        b == Min(end, Len(s))
        lo == Min(a, b)
        hi == IF a < b THEN b ELSE a
    IN [j \in 1..(hi - lo) |-> s[lo + j]]

RECURSIVE TrimStart(_)
TrimStart(s) ==
    IF s # <<>> /\ Head(s) \in Whitespace THEN TrimStart(Tail(s)) ELSE s

RECURSIVE TrimEnd(_)
TrimEnd(s) ==
    IF s # <<>> /\ s[Len(s)] \in Whitespace
    THEN TrimEnd(SubSeq(s, 1, Len(s) - 1))
    ELSE s

\* s.trim()
Trim(s) == TrimEnd(TrimStart(s))

DigitChars == <<"0", "1", "2", "3", "4", "5", "6", "7", "8", "9">>

\* `${n}` for a non-negative integer
RECURSIVE Decimal(_)
Decimal(n) ==
    IF n < 10 THEN <<DigitChars[n + 1]>>
    ELSE Decimal(n \div 10) \o <<DigitChars[(n % 10) + 1]>>

\* `[Page ${i + 1} - No text extracted]`, n being i + 1
Placeholder(n) ==
    <<"[", "P", "a", "g", "e", " ">> \o Decimal(n) \o
    <<" ", "-", " ", "N", "o", " ", "t", "e", "x", "t", " ",
      "e", "x", "t", "r", "a", "c", "t", "e", "d", "]">>

\* a page length that rounds down
AvgCharsFloor(len, pageCount) == len \div pageCount

\* Math.ceil(fullText.length / pageCount), for pageCount > 0
AvgCharsPerPage(len, pageCount) == (len + pageCount - 1) \div pageCount

\* extractPDFText once pdf-parse has returned {text, numpages}: the page
\* texts; with numpages = 0 the loop body never runs
extractPDFText(fullText, pageCount) ==
    IF pageCount = 0 THEN <<>>
    ELSE LET avgCharsPerPage == AvgCharsPerPage(Len(fullText), pageCount) IN
         [n \in 1..pageCount |->
             LET start == (n - 1) * avgCharsPerPage
                 end == Min(n * avgCharsPerPage, Len(fullText))
                 pageText == Trim(Substring(fullText, start, end))
             IN IF pageText = <<>> THEN Placeholder(n) ELSE pageText]

RECURSIVE SplitFrom(_, _)
\* the tokens of text.split(/\s+/) from rest on, cur being the token so far
SplitFrom(rest, cur) ==
    IF rest = <<>> THEN <<cur>>
    ELSE IF Head(rest) \in Whitespace
    THEN <<cur>> \o SplitFrom(TrimStart(rest), <<>>)
    ELSE SplitFrom(Tail(rest), Append(cur, Head(rest)))

\* pageText.split(/\s+/)
Split(text) == SplitFrom(text, <<>>)

\* a filter that keeps every token
AnyToken(w) == TRUE

\* w => w.length > 0
NonEmpty(w) == Len(w) > 0

\* pageText.split(/\s+/).filter(w => w.length > 0).length
WordCount(text) == Len(SelectSeq(Split(text), NonEmpty))

\* createPageDocuments: the Page documents of the batch
createPageDocuments(pageTexts) ==
    [n \in 1..Len(pageTexts) |->
        [pageNumber |-> n, text |-> pageTexts[n],
         wordCount |-> WordCount(pageTexts[n])]]

\* no text is being looked at
NoExtraction == [state |-> "none", from |-> "none", text |-> <<>>,
                 numpages |-> 0, pageTexts |-> <<>>, docs |-> <<>>,
                 status |-> EXTRACTING, pageCount |-> 0]

\* ----------------------------------------------------- upload (index.tsx)
\* addDoc(collection(firestore, 'decks'), {status: 'uploaded', pageCount: 0})
\* Ids are handed out in upload order, so uploadedAt order is id order.

\* the largest numpages of an uploaded file in the deployment at hand
UploadPages == IF Cardinality(procs) > 1 THEN MaxPages2 ELSE MaxPages

\* addDoc(collection(firestore, 'decks'), {status: 'uploaded', pageCount: 0})
Upload(d) ==
    /\ uploadsLeft > 0
    /\ decks[d].status = ABSENT
    /\ \A e \in Decks : e < d => decks[e].status # ABSENT
    /\ decks' = [decks EXCEPT ![d] = NewDeck(d)]
    /\ \E n \in 0..UploadPages : files' = [files EXCEPT ![d] = n]
    /\ uploadsLeft' = uploadsLeft - 1
    /\ UNCHANGED <<procs, escapes, costCall, extraction, aiCosts, ratings, pages, insights, clock, runningJobs, logger, inv,
                   claims, faultsLeft,
                   capTicks, ticksLeft>>

\* ------------------------------------------------------------ Extractor
\* the oldest deck of a set (uploadedAt order is id order)
Oldest(U) == IF U = {} THEN NoDeck ELSE CHOOSE d \in U : \A e \in U : d <= e

\* a finder that also returns decks whose extraction has not finished
FindDeckUnfinished ==
    Oldest({d \in Decks : decks[d].status \in {UPLOADED, EXTRACTING}})

\* a finder that orders by upload time descending
FindDeckNewest ==
    LET U == {d \in Decks : decks[d].status = UPLOADED}
    IN IF U = {} THEN NoDeck ELSE CHOOSE d \in U : \A e \in U : d >= e

\* .where('status', '==', UPLOADED).orderBy('uploadedAt', 'asc').limit(1)
FindDeckToExtract == Oldest({d \in Decks : decks[d].status = UPLOADED})

\* the store answers findDeckToExtract's query, or the query throws
EFindOp(p, s) ==
    LET r == inv[p][Extractor][s] IN
    /\ r.pc = "findQ"
    /\ ~MicrotaskPending(p)
    /\ \E ok \in Outcomes :
          /\ Charge(ok)
          /\ IF ok THEN Goto(p, Extractor, s,
                             [r EXCEPT !.pc = "findR", !.deck = FindDeckToExtract],
                             logger[p])
             ELSE Catch(p, Extractor, s, r, "find")
    /\ UNCHANGED <<procs, escapes, costCall, extraction, aiCosts, ratings, decks, files, pages, insights, clock, runningJobs,
                   claims, uploadsLeft, capTicks, ticksLeft>>

\* extractPDFPages resumes with the deck found: no work, or set the deck
\* context and issue the claim write
EFindRet(p, s) ==
    LET r == inv[p][Extractor][s] IN
    /\ r.pc = "findR"
    /\ IF r.deck = NoDeck
       THEN CallEndSession(p, Extractor, s, r, logger[p], "no_items_found")
       ELSE Goto(p, Extractor, s, [r EXCEPT !.pc = "claimQ"],
                 SetDeckContext(logger[p], r.deck))
    /\ UNCHANGED <<procs, escapes, costCall, extraction, aiCosts, ratings, decks, files, pages, insights, clock, runningJobs,
                   claims, faultsLeft, uploadsLeft, capTicks, ticksLeft>>

\* the store applies update({status: EXTRACTING}), or the call throws
EClaimOp(p, s) ==
    LET r == inv[p][Extractor][s] IN
    /\ r.pc = "claimQ"
    /\ ~MicrotaskPending(p)
    /\ \E ok \in Outcomes :
          /\ Charge(ok)
          /\ IF ok
             THEN /\ Goto(p, Extractor, s, [r EXCEPT !.pc = "claimR"], logger[p])
                  /\ decks' = [decks EXCEPT ![r.deck].status = EXTRACTING]
                  /\ claims' = [claims EXCEPT ![r.deck] = @ + 1]
             ELSE /\ Catch(p, Extractor, s, r, "claim")
                  /\ UNCHANGED <<decks, claims>>
    /\ UNCHANGED <<procs, escapes, costCall, extraction, aiCosts, ratings, files, pages, insights, clock, runningJobs,
                   uploadsLeft, capTicks, ticksLeft>>

\* after the claim: issue the download
EClaimRet(p, s) ==
    LET r == inv[p][Extractor][s] IN
    /\ r.pc = "claimR"
    /\ Goto(p, Extractor, s, [r EXCEPT !.pc = "dl"],
            LoggerAdd(logger[p], "Downloading PDF from storage"))
    /\ UNCHANGED <<procs, escapes, costCall, extraction, aiCosts, ratings, decks, files, pages, insights, clock, runningJobs,
                   claims, faultsLeft, uploadsLeft, capTicks, ticksLeft>>

\* downloadPDF resolves or throws; on success pdf-parse is called
EDownload(p, s) ==
    LET r == inv[p][Extractor][s] IN
    /\ r.pc = "dl"
    /\ ~MicrotaskPending(p)
    /\ \E ok \in Outcomes :
          /\ Charge(ok)
          /\ IF ok THEN Goto(p, Extractor, s, [r EXCEPT !.pc = "parse"],
                             LoggerAdd(logger[p], "Extracting text from PDF"))
             ELSE Catch(p, Extractor, s, r, "download")
    /\ UNCHANGED <<procs, escapes, costCall, extraction, aiCosts, ratings, decks, files, pages, insights, clock, runningJobs,
                   claims, uploadsLeft, capTicks, ticksLeft>>

\* extractPDFText resolves with numpages page texts or throws; on success
\* createPageDocuments builds the batch and issues batch.commit()
EParse(p, s) ==
    LET r == inv[p][Extractor][s] IN
    /\ r.pc = "parse"
    /\ ~MicrotaskPending(p)
    /\ \E ok \in Outcomes :
          /\ Charge(ok)
          /\ IF ok THEN Goto(p, Extractor, s,
                             [r EXCEPT !.pc = "batchQ", !.n = files[r.deck]],
                             LoggerAdd(logger[p], "Creating page documents"))
             ELSE Catch(p, Extractor, s, r, "parse")
    /\ UNCHANGED <<procs, escapes, costCall, extraction, aiCosts, ratings, decks, files, pages, insights, clock, runningJobs,
                   claims, uploadsLeft, capTicks, ticksLeft>>

\* a batch that numbers the pages from 0 (pageNumber: index)
BatchPagesFromZero(bag, n) ==
    [k \in PageNums |-> IF k < n THEN bag[k] + 1 ELSE bag[k]]

\* pages.forEach((pageText, index) => batch.set(ref, {pageNumber: index+1}))
BatchPages(bag, n) == [k \in PageNums |-> IF k <= n THEN bag[k] + 1 ELSE bag[k]]

\* the store commits the page batch atomically, or the call throws
EBatchOp(p, s) ==
    LET r == inv[p][Extractor][s] IN
    /\ r.pc = "batchQ"
    /\ ~MicrotaskPending(p)
    /\ \E ok \in Outcomes :
          /\ Charge(ok)
          /\ IF ok
             THEN /\ Goto(p, Extractor, s, [r EXCEPT !.pc = "batchR"], logger[p])
                  /\ pages' = [pages EXCEPT ![r.deck] = BatchPages(@, r.n)]
             ELSE /\ Catch(p, Extractor, s, r, "batch")
                  /\ UNCHANGED pages
    /\ UNCHANGED <<procs, escapes, costCall, extraction, aiCosts, ratings, decks, files, insights, clock, runningJobs, claims,
                   uploadsLeft, capTicks, ticksLeft>>

\* after the batch: issue update({ANALYZING, pageCount, processedAt: now})
EBatchRet(p, s) ==
    LET r == inv[p][Extractor][s] IN
    /\ r.pc = "batchR"
    /\ Goto(p, Extractor, s, [r EXCEPT !.pc = "anaQ", !.ts = clock], logger[p])
    /\ clock' = clock + 1
    /\ UNCHANGED <<procs, escapes, costCall, extraction, aiCosts, ratings, decks, files, pages, insights, runningJobs, claims,
                   faultsLeft, uploadsLeft, capTicks, ticksLeft>>

\* the store applies the final update, or the call throws
EAnaOp(p, s) ==
    LET r == inv[p][Extractor][s] IN
    /\ r.pc = "anaQ"
    /\ ~MicrotaskPending(p)
    /\ \E ok \in Outcomes :
          /\ Charge(ok)
          /\ IF ok
             THEN /\ Goto(p, Extractor, s, [r EXCEPT !.pc = "anaR", !.ts = 0],
                          logger[p])
                  /\ decks' = [decks EXCEPT ![r.deck].status = ANALYZING,
                                            ![r.deck].pageCount = r.n,
                                            ![r.deck].processedAt = r.ts]
             ELSE /\ Catch(p, Extractor, s, [r EXCEPT !.ts = 0], "analyzing")
                  /\ UNCHANGED decks
    /\ UNCHANGED <<procs, escapes, costCall, extraction, aiCosts, ratings, files, pages, insights, clock, runningJobs, claims,
                   uploadsLeft, capTicks, ticksLeft>>

\* success path: await Logger.endSession({status: 'completed', metadata:
\* {pageCount: pages.length}})
EAnaRet(p, s) ==
    LET r == inv[p][Extractor][s] IN
    /\ r.pc = "anaR"
    /\ CallEndSession(p, Extractor, s, r,
                      EndSessionMetadata(
                          LoggerAdd(logger[p], "PDF extraction complete"), r.n),
                      "completed")
    /\ UNCHANGED <<procs, escapes, costCall, extraction, aiCosts, ratings, decks, files, pages, insights, clock, runningJobs,
                   claims, faultsLeft, uploadsLeft, capTicks, ticksLeft>>

\* the store applies update({status: ERROR, errorMessage}); or the call
\* throws, out of the body into preventOverlap's catch and finally
EErrOp(p, s) ==
    LET r == inv[p][Extractor][s] IN
    /\ r.pc = "errQ"
    /\ ~MicrotaskPending(p)
    /\ \E ok \in Outcomes :
          /\ Charge(ok)
          /\ IF ok
             THEN /\ inv' = [inv EXCEPT ![p][Extractor][s] =
                                 [r EXCEPT !.pc = "errR"]]
                  /\ decks' = [decks EXCEPT ![r.target].status = ERROR,
                                            ![r.target].errorMessage = r.msg]
                  /\ UNCHANGED runningJobs
                  /\ UNCHANGED <<procs, escapes>>
             ELSE /\ Finish(p, Extractor, s)
                  /\ procs' = AfterEscape(p)
                  /\ escapes' = escapes + 1
                  /\ UNCHANGED decks
    /\ UNCHANGED <<costCall, extraction, aiCosts, ratings, files, pages, insights, clock, logger, claims,
                   uploadsLeft, capTicks, ticksLeft>>

\* the failure handler returns
EErrRet(p, s) ==
    /\ inv[p][Extractor][s].pc = "errR"
    /\ Finish(p, Extractor, s)
    /\ UNCHANGED <<procs, escapes, costCall, extraction, aiCosts, ratings, decks, files, pages, insights, clock, logger,
                   claims, faultsLeft, uploadsLeft, capTicks, ticksLeft>>

\* --------------------------------------------------------------- Critic
RECURSIVE SortByProcessedAt(_)
SortByProcessedAt(S) ==
    IF S = {} THEN <<>>
    ELSE LET d == CHOOSE x \in S : \A y \in S :
                      \/ decks[x].processedAt < decks[y].processedAt
                      \/ (decks[x].processedAt = decks[y].processedAt /\ x <= y)
         IN <<[id |-> d, pageCount |-> decks[d].pageCount]>>
            \o SortByProcessedAt(S \ {d})

\* a decks query that also returns decks still being extracted
DecksQueryUnfinished ==
    LET all == SortByProcessedAt({d \in Decks :
                                     decks[d].status \in {EXTRACTING, ANALYZING}})
    IN SubSeq(all, 1, Min(Len(all), DeckScanLimit))

\* .where('status', '==', ANALYZING).orderBy('processedAt', 'asc').limit(10)
DecksQuery ==
    LET all == SortByProcessedAt({d \in Decks : decks[d].status = ANALYZING})
    IN SubSeq(all, 1, Min(Len(all), DeckScanLimit))

\* an existence query that matches no document
InsightQueryNone(d, n) == 0

\* .where('pageNumber', '==', n).where('type', '==', PROBLEM).limit(1):
\* the size of the snapshot
InsightQuery(d, n) == IF insights[d][n] > 0 THEN 1 ELSE 0

\* a completion test that forgets the page count
CompleteCheckAnyInsight(insightCount, pageCount) ==
    insightCount >= InsightTypes

\* a completion test that is off by one
CompleteCheckStrict(insightCount, pageCount) ==
    insightCount > pageCount * InsightTypes

\* if (insightCount >= expectedInsights)
CompleteCheck(insightCount, pageCount) ==
    insightCount >= pageCount * InsightTypes

\* the store answers the deck query, or the query throws
CDecksOp(p, s) ==
    LET r == inv[p][Critic][s] IN
    /\ r.pc = "decksQ"
    /\ ~MicrotaskPending(p)
    /\ \E ok \in Outcomes :
          /\ Charge(ok)
          /\ IF ok THEN Goto(p, Critic, s,
                             [r EXCEPT !.pc = "decksR", !.snap = DecksQuery,
                                       !.seen = {DecksQuery[i].id :
                                                    i \in 1..Len(DecksQuery)}],
                             logger[p])
             ELSE Catch(p, Critic, s, r, "decks")
    /\ UNCHANGED <<procs, escapes, costCall, extraction, aiCosts, ratings, decks, files, pages, insights, clock, runningJobs,
                   claims, uploadsLeft, capTicks, ticksLeft>>

\* findPageToCritique moves on to the next deck of its snapshot, or returns
\* null to critiqueProblemStatement when there is none
NextDeck(p, s, r) ==
    IF Len(r.snap) <= 1
    THEN CallEndSession(p, Critic, s,
                        [r EXCEPT !.snap = <<>>, !.pgs = <<>>, !.seen = {}],
                        logger[p], "no_items_found")
    ELSE Goto(p, Critic, s,
              [r EXCEPT !.pc = "pagesQ", !.snap = Tail(r.snap), !.pgs = <<>>],
              logger[p])

\* findPageToCritique resumes with the decks snapshot
CDecksRet(p, s) ==
    LET r == inv[p][Critic][s] IN
    /\ r.pc = "decksR"
    /\ IF r.snap = <<>>
       THEN CallEndSession(p, Critic, s, [r EXCEPT !.seen = {}], logger[p],
                           "no_items_found")
       ELSE Goto(p, Critic, s, [r EXCEPT !.pc = "pagesQ"], logger[p])
    /\ UNCHANGED <<procs, escapes, costCall, extraction, aiCosts, ratings, decks, files, pages, insights, clock, runningJobs,
                   claims, faultsLeft, uploadsLeft, capTicks, ticksLeft>>

\* the store answers the pages query of the deck being scanned, or throws
CPagesOp(p, s) ==
    LET r == inv[p][Critic][s] IN
    /\ r.pc = "pagesQ"
    /\ ~MicrotaskPending(p)
    /\ \E ok \in Outcomes :
          /\ Charge(ok)
          /\ IF ok THEN Goto(p, Critic, s,
                             [r EXCEPT !.pc = "pagesR",
                                       !.pgs = PagesQuery(Head(r.snap).id)],
                             logger[p])
             ELSE Catch(p, Critic, s, [r EXCEPT !.snap = <<>>], "pages")
    /\ UNCHANGED <<procs, escapes, costCall, extraction, aiCosts, ratings, decks, files, pages, insights, clock, runningJobs,
                   claims, uploadsLeft, capTicks, ticksLeft>>

\* the page loop starts: query the Insight of the first page, or go on to
\* the next deck when the deck has no pages
CPagesRet(p, s) ==
    LET r == inv[p][Critic][s] IN
    /\ r.pc = "pagesR"
    /\ IF r.pgs = <<>> THEN NextDeck(p, s, r)
       ELSE Goto(p, Critic, s, [r EXCEPT !.pc = "insQ"], logger[p])
    /\ UNCHANGED <<procs, escapes, costCall, extraction, aiCosts, ratings, decks, files, pages, insights, clock, runningJobs,
                   claims, faultsLeft, uploadsLeft, capTicks, ticksLeft>>

\* the store answers the existence query for the page being checked, or
\* the query throws
CInsOp(p, s) ==
    LET r == inv[p][Critic][s] IN
    /\ r.pc = "insQ"
    /\ ~MicrotaskPending(p)
    /\ \E ok \in Outcomes :
          /\ Charge(ok)
          /\ IF ok THEN Goto(p, Critic, s,
                             [r EXCEPT !.pc = "insR",
                                       !.cnt = InsightQuery(Head(r.snap).id,
                                                            Head(r.pgs))],
                             logger[p])
             ELSE Catch(p, Critic, s, [r EXCEPT !.snap = <<>>, !.pgs = <<>>],
                        "insight query")
    /\ UNCHANGED <<procs, escapes, costCall, extraction, aiCosts, ratings, decks, files, pages, insights, clock, runningJobs,
                   claims, uploadsLeft, capTicks, ticksLeft>>

\* if (insightsSnapshot.empty) the page is returned: critiqueProblemStatement
\* sets the deck context and calls critiquePage; otherwise the scan goes on
CInsRet(p, s) ==
    LET r == inv[p][Critic][s] IN
    /\ r.pc = "insR"
    /\ IF r.cnt = 0
       THEN Goto(p, Critic, s,
                 [r EXCEPT !.pc = "ai", !.deck = Head(r.snap).id,
                           !.n = Head(r.snap).pageCount, !.page = Head(r.pgs),
                           !.snap = <<>>, !.pgs = <<>>, !.seen = {}],
                 LoggerAdd(SetDeckContext(logger[p], Head(r.snap).id),
                           "Analyzing page"))
       ELSE IF Len(r.pgs) > 1
       THEN Goto(p, Critic, s,
                 [r EXCEPT !.pc = "insQ", !.pgs = Tail(r.pgs), !.cnt = 0],
                 logger[p])
       ELSE NextDeck(p, s, [r EXCEPT !.cnt = 0])
    /\ UNCHANGED <<procs, escapes, costCall, extraction, aiCosts, ratings, decks, files, pages, insights, clock, runningJobs,
                   claims, faultsLeft, uploadsLeft, capTicks, ticksLeft>>

\* response.result.rating: JSON.parse(content) as CritiqueResult is not
\* validated, so the model's answer may lie outside 1..10
RatingValues == {7, 11}

\* the ratings explored in the deployment at hand: with two processes only
\* the answers that keep to the prompt's 1-10
AnswerRatings ==
    IF Cardinality(procs) > 1 THEN RatingValues \cap (1..10) ELSE RatingValues

\* openai.chat.completions.create rejects; or it resolves and the content
\* does not parse (JSON.parse throws inside callOpenAI's try); or it
\* resolves with a result, and critiquePage goes on to trackAICost.
\* calls counts the completions the API answered.
AiOutcomes == IF faultsLeft > 0 THEN {"ok", "unparsable", "rejected"} ELSE {"ok"}

CAi(p, s) ==
    LET r == inv[p][Critic][s] IN
    /\ r.pc = "ai"
    /\ ~MicrotaskPending(p)
    /\ \E out \in AiOutcomes :
          /\ Charge(out = "ok")
          /\ CASE out = "ok" ->
                    \E rating \in AnswerRatings :
                        Goto(p, Critic, s,
                             [r EXCEPT !.pc = "cost", !.rating = rating,
                                       !.calls = @ + 1],
                             logger[p])
               [] out = "unparsable" ->
                    Catch(p, Critic, s, [r EXCEPT !.calls = @ + 1], "json")
               [] out = "rejected" -> Catch(p, Critic, s, r, "openai")
    /\ UNCHANGED <<procs, escapes, costCall, extraction, aiCosts, ratings, decks, files, pages, insights, clock,
                   runningJobs, claims, uploadsLeft, capTicks, ticksLeft>>

\* a trackAICost that never writes
CostAppendNone(d, k) == aiCosts

\* trackAICost: db.collection(AI_COSTS).add({action, actorName, deckId,
\* pageNumber, ...})
CostAppend(d, k) == [aiCosts EXCEPT ![d][k] = @ + 1]

\* the aiCosts append resolves (the Insight write is issued) or throws
CCost(p, s) ==
    LET r == inv[p][Critic][s] IN
    /\ r.pc = "cost"
    /\ ~MicrotaskPending(p)
    /\ \E ok \in Outcomes :
          /\ Charge(ok)
          /\ IF ok
             THEN /\ Goto(p, Critic, s,
                          [r EXCEPT !.pc = "insAddQ",
                                    !.costs = @ + CostAppend(r.deck, r.page)[r.deck][r.page]
                                                - aiCosts[r.deck][r.page]],
                          LoggerAdd(logger[p], "Critique complete"))
                  /\ aiCosts' = CostAppend(r.deck, r.page)
             ELSE /\ Catch(p, Critic, s, r, "cost")
                  /\ UNCHANGED aiCosts
    /\ UNCHANGED <<procs, escapes, costCall, extraction, ratings, decks, files, pages, insights, clock,
                   runningJobs, claims, uploadsLeft, capTicks, ticksLeft>>

\* insightData.rating = response.result.rating
InsightRating(r) == r.rating

\* the store adds the Insight {type: PROBLEM, pageNumber, rating}, or throws
CInsAddOp(p, s) ==
    LET r == inv[p][Critic][s] IN
    /\ r.pc = "insAddQ"
    /\ ~MicrotaskPending(p)
    /\ \E ok \in Outcomes :
          /\ Charge(ok)
          /\ IF ok
             THEN /\ Goto(p, Critic, s,
                          [r EXCEPT !.pc = "insAddR", !.made = @ + 1],
                          logger[p])
                  /\ insights' = [insights EXCEPT ![r.deck][r.page] = @ + 1]
                  /\ ratings' = [ratings EXCEPT ![r.deck][r.page] =
                                                    @ \cup {InsightRating(r)}]
             ELSE /\ Catch(p, Critic, s, r, "insight add")
                  /\ UNCHANGED <<insights, ratings>>
    /\ UNCHANGED <<procs, escapes, costCall, extraction, aiCosts, decks, files, pages, clock, runningJobs,
                   claims, uploadsLeft, capTicks, ticksLeft>>

\* checkIfDeckComplete is called: it issues the count query
CInsAddRet(p, s) ==
    LET r == inv[p][Critic][s] IN
    /\ r.pc = "insAddR"
    /\ Goto(p, Critic, s, [r EXCEPT !.pc = "cntQ"],
            LoggerAdd(logger[p], "Insight saved to Firestore"))
    /\ UNCHANGED <<procs, escapes, costCall, extraction, aiCosts, ratings, decks, files, pages, insights, clock, runningJobs,
                   claims, faultsLeft, uploadsLeft, capTicks, ticksLeft>>

\* the store answers the count of all Insights of the deck, or throws
CCntOp(p, s) ==
    LET r == inv[p][Critic][s] IN
    /\ r.pc = "cntQ"
    /\ ~MicrotaskPending(p)
    /\ \E ok \in Outcomes :
          /\ Charge(ok)
          /\ IF ok THEN Goto(p, Critic, s,
                             [r EXCEPT !.pc = "cntR",
                                       !.cnt = CollSize(insights[r.deck])],
                             logger[p])
             ELSE Catch(p, Critic, s, r, "count")
    /\ UNCHANGED <<procs, escapes, costCall, extraction, aiCosts, ratings, decks, files, pages, insights, clock, runningJobs,
                   claims, uploadsLeft, capTicks, ticksLeft>>

\* checkIfDeckComplete compares the count with pageCount * 1
CCntRet(p, s) ==
    LET r == inv[p][Critic][s] IN
    /\ r.pc = "cntR"
    /\ IF CompleteCheck(r.cnt, r.n)
       THEN Goto(p, Critic, s, [r EXCEPT !.pc = "complQ"], logger[p])
       ELSE CallEndSession(p, Critic, s, r, logger[p], "completed")
    /\ UNCHANGED <<procs, escapes, costCall, extraction, aiCosts, ratings, decks, files, pages, insights, clock, runningJobs,
                   claims, faultsLeft, uploadsLeft, capTicks, ticksLeft>>

\* the store applies update({status: COMPLETE}), or throws
CComplOp(p, s) ==
    LET r == inv[p][Critic][s] IN
    /\ r.pc = "complQ"
    /\ ~MicrotaskPending(p)
    /\ \E ok \in Outcomes :
          /\ Charge(ok)
          /\ IF ok
             THEN /\ Goto(p, Critic, s, [r EXCEPT !.pc = "complR"], logger[p])
                  /\ decks' = [decks EXCEPT ![r.deck].status = COMPLETE]
             ELSE /\ Catch(p, Critic, s, r, "complete")
                  /\ UNCHANGED decks
    /\ UNCHANGED <<procs, escapes, costCall, extraction, aiCosts, ratings, files, pages, insights, clock, runningJobs, claims,
                   uploadsLeft, capTicks, ticksLeft>>

\* success path: await Logger.endSession({status: 'completed'})
CComplRet(p, s) ==
    LET r == inv[p][Critic][s] IN
    /\ r.pc = "complR"
    /\ CallEndSession(p, Critic, s, r,
                      LoggerAdd(logger[p], "Deck analysis complete!"),
                      "completed")
    /\ UNCHANGED <<procs, escapes, costCall, extraction, aiCosts, ratings, decks, files, pages, insights, clock, runningJobs,
                   claims, faultsLeft, uploadsLeft, capTicks, ticksLeft>>

\* ------------------------------------------------------- specifications
InitStore ==
    /\ decks = [d \in Decks |-> NoDoc]
    /\ files = [d \in Decks |-> 0]
    /\ pages = [d \in Decks |-> EmptyBag]
    /\ insights = [d \in Decks |-> EmptyBag]
    /\ ratings = [d \in Decks |-> [k \in PageNums |-> {}]]
    /\ aiCosts = [d \in Decks |-> EmptyBag]
    /\ claims = [d \in Decks |-> 0]
    /\ clock = 1

InitProcs ==
    /\ escapes = 0
    /\ costCall = NoCall
    /\ extraction = NoExtraction
    /\ runningJobs = [p \in procs |-> [j \in Jobs |-> FALSE]]
    /\ logger = [p \in procs |-> NewLogger]
    /\ inv = [p \in procs |-> [j \in Jobs |-> [s \in Slots |-> IdleInv]]]

\* one scheduler process (the reference deployment)
Init ==
    /\ procs = {1}
    /\ InitStore
    /\ InitProcs
    /\ faultsLeft = MaxFaults
    /\ uploadsLeft = NumDecks
    /\ capTicks = FALSE
    /\ ticksLeft = 0

\* two scheduler processes against the same store
Init2 ==
    /\ procs = {1, 2}
    /\ InitStore
    /\ InitProcs
    /\ faultsLeft = MaxFaults2
    /\ uploadsLeft = NumDecks2
    /\ capTicks = TRUE
    /\ ticksLeft = MaxTicks2

Next ==
    \/ \E d \in Decks : Upload(d)
    \/ \E p \in procs, j \in Jobs : TickSkip(p, j)
    \/ \E p \in procs, j \in Jobs : TickRun(p, j)
    \/ \E p \in procs, j \in Jobs, s \in Slots : EndSessionAdd(p, j, s)
    \/ \E p \in procs, j \in Jobs, s \in Slots : EndSessionRet(p, j, s)
    \/ \E p \in procs, s \in Slots : EFindOp(p, s)
    \/ \E p \in procs, s \in Slots : EFindRet(p, s)
    \/ \E p \in procs, s \in Slots : EClaimOp(p, s)
    \/ \E p \in procs, s \in Slots : EClaimRet(p, s)
    \/ \E p \in procs, s \in Slots : EDownload(p, s)
    \/ \E p \in procs, s \in Slots : EParse(p, s)
    \/ \E p \in procs, s \in Slots : EBatchOp(p, s)
    \/ \E p \in procs, s \in Slots : EBatchRet(p, s)
    \/ \E p \in procs, s \in Slots : EAnaOp(p, s)
    \/ \E p \in procs, s \in Slots : EAnaRet(p, s)
    \/ \E p \in procs, s \in Slots : EErrOp(p, s)
    \/ \E p \in procs, s \in Slots : EErrRet(p, s)
    \/ \E p \in procs, s \in Slots : CDecksOp(p, s)
    \/ \E p \in procs, s \in Slots : CDecksRet(p, s)
    \/ \E p \in procs, s \in Slots : CPagesOp(p, s)
    \/ \E p \in procs, s \in Slots : CPagesRet(p, s)
    \/ \E p \in procs, s \in Slots : CInsOp(p, s)
    \/ \E p \in procs, s \in Slots : CInsRet(p, s)
    \/ \E p \in procs, s \in Slots : CAi(p, s)
    \/ \E p \in procs, s \in Slots : CCost(p, s)
    \/ \E p \in procs, s \in Slots : CInsAddOp(p, s)
    \/ \E p \in procs, s \in Slots : CInsAddRet(p, s)
    \/ \E p \in procs, s \in Slots : CCntOp(p, s)
    \/ \E p \in procs, s \in Slots : CCntRet(p, s)
    \/ \E p \in procs, s \in Slots : CComplOp(p, s)
    \/ \E p \in procs, s \in Slots : CComplRet(p, s)

\* one scheduler process working off a queue of several decks
InitQ ==
    /\ procs = {1}
    /\ InitStore
    /\ InitProcs
    /\ faultsLeft = MaxFaultsQ
    /\ uploadsLeft = NumDecksQ
    /\ capTicks = TRUE
    /\ ticksLeft = MaxTicksQ

Spec == Init /\ [][Next]_vars

SpecQ == InitQ /\ [][Next]_vars

Spec2 == Init2 /\ [][Next]_vars

\* either deployment
Spec12 == (Init \/ Init2) /\ [][Next]_vars

\* the steps of the in-flight invocation of job j of process p
JobStep(p, j) ==
    \E s \in Slots :
        \/ EndSessionAdd(p, j, s) \/ EndSessionRet(p, j, s)
        \/ /\ j = Extractor
           /\ \/ EFindOp(p, s) \/ EFindRet(p, s) \/ EClaimOp(p, s)
              \/ EClaimRet(p, s) \/ EDownload(p, s) \/ EParse(p, s)
              \/ EBatchOp(p, s) \/ EBatchRet(p, s) \/ EAnaOp(p, s)
              \/ EAnaRet(p, s) \/ EErrOp(p, s) \/ EErrRet(p, s)
        \/ /\ j = Critic
           /\ \/ CDecksOp(p, s) \/ CDecksRet(p, s) \/ CPagesOp(p, s)
              \/ CPagesRet(p, s) \/ CInsOp(p, s) \/ CInsRet(p, s)
              \/ CAi(p, s) \/ CCost(p, s) \/ CInsAddOp(p, s)
              \/ CInsAddRet(p, s) \/ CCntOp(p, s) \/ CCntRet(p, s)
              \/ CComplOp(p, s) \/ CComplRet(p, s)

\* one process whose cron timers keep firing and whose awaited calls all
\* return; at most MaxFaults of them throw, so a retried call succeeds.
\* A timer or an answer that is ready waits while a resumed caller runs
\* (MicrotaskPending), so the steps are strongly fair: they are not put off
\* forever by the other job's invocations returning again and again.
SpecFair ==
    /\ Init
    /\ [][Next]_vars
    /\ \A j \in Jobs : SF_vars(TickRun(1, j)) /\ SF_vars(JobStep(1, j))

\* ------------------------------------------------- the Logger on its own
\* A caller (the slot of process 1's first job) drives the Logger's methods
\* one after the other with arbitrary arguments.
Caller == inv[1][Extractor][1]

Statuses == {NoStatus, "completed", "failed", "no_items_found"}
ErrorTexts == {"timeout", "denied"}

LStart(action) ==
    /\ Caller.pc = "idle"
    /\ logger' = [logger EXCEPT ![1] = StartSession(@, action)]
    /\ UNCHANGED <<procs, escapes, costCall, extraction, aiCosts, ratings, decks, files, pages, insights, clock, runningJobs,
                   inv, claims, faultsLeft, uploadsLeft, capTicks, ticksLeft>>

LSetDeckContext(d) ==
    /\ Caller.pc = "idle"
    /\ logger' = [logger EXCEPT ![1] = SetDeckContext(@, d)]
    /\ UNCHANGED <<procs, escapes, costCall, extraction, aiCosts, ratings, decks, files, pages, insights, clock, runningJobs,
                   inv, claims, faultsLeft, uploadsLeft, capTicks, ticksLeft>>

LAdd(message) ==
    /\ Caller.pc = "idle"
    /\ logger' = [logger EXCEPT ![1] = LoggerAdd(@, message)]
    /\ UNCHANGED <<procs, escapes, costCall, extraction, aiCosts, ratings, decks, files, pages, insights, clock, runningJobs,
                   inv, claims, faultsLeft, uploadsLeft, capTicks, ticksLeft>>

LError(message, error) ==
    /\ Caller.pc = "idle"
    /\ logger[1].session # NoSession => Len(logger[1].session.errors) < MaxErrors
    /\ logger' = [logger EXCEPT ![1] = LoggerError(@, message, error)]
    /\ UNCHANGED <<procs, escapes, costCall, extraction, aiCosts, ratings, decks, files, pages, insights, clock, runningJobs,
                   inv, claims, faultsLeft, uploadsLeft, capTicks, ticksLeft>>

\* await Logger.endSession(status ? {status} : undefined); the caller keeps
\* the argument in msg
LEnd(status) ==
    /\ Caller.pc = "idle"
    /\ CallEndSession(1, Extractor, 1, [IdleInv EXCEPT !.msg = status],
                      logger[1], status)
    /\ UNCHANGED <<procs, escapes, costCall, extraction, aiCosts, ratings, decks, files, pages, insights, clock, runningJobs,
                   claims, faultsLeft, uploadsLeft, capTicks, ticksLeft>>

\* the caller resumes after the await
LResume ==
    /\ Caller.pc = "endR"
    /\ inv' = [inv EXCEPT ![1][Extractor][1] = IdleInv]
    /\ UNCHANGED <<procs, escapes, costCall, extraction, aiCosts, ratings, decks, files, pages, insights, clock, runningJobs,
                   logger, claims, faultsLeft, uploadsLeft, capTicks, ticksLeft>>

InitL ==
    /\ procs = {1}
    /\ InitStore
    /\ InitProcs
    /\ faultsLeft = MaxFaults
    /\ uploadsLeft = 0
    /\ capTicks = FALSE
    /\ ticksLeft = 0

NextL ==
    \/ \E j \in Jobs : LStart(SessionAction(j))
    \/ \E d \in Decks : LSetDeckContext(d)
    \/ \E m \in Messages(Extractor) : LAdd(m)
    \/ \E j \in Jobs, e \in ErrorTexts : LError(FailMessage(j), e)
    \/ \E status \in Statuses : LEnd(status)
    \/ EndSessionAdd(1, Extractor, 1)
    \/ LResume

SpecLogger == InitL /\ [][NextL]_vars

\* ------------------------------------------- calculateCost on its own
\* a caller passes a model name and two token counts
InitCost ==
    /\ procs = {1}
    /\ InitStore
    /\ escapes = 0
    /\ runningJobs = [p \in procs |-> [j \in Jobs |-> FALSE]]
    /\ logger = [p \in procs |-> NewLogger]
    /\ inv = [p \in procs |-> [j \in Jobs |-> [s \in Slots |-> IdleInv]]]
    /\ extraction = NoExtraction
    /\ faultsLeft = 0
    /\ uploadsLeft = 0
    /\ capTicks = FALSE
    /\ ticksLeft = 0
    /\ \E model \in ModelNames, p \in TokenCounts, c \in TokenCounts :
          costCall = [model |-> model, promptTokens |-> p,
                      completionTokens |-> c, state |-> "called",
                      usd |-> NaN]

\* calculateCost returns
CalculateCostReturns ==
    /\ costCall.state = "called"
    /\ costCall' = [costCall EXCEPT
                       !.state = "returned",
                       !.usd = calculateCost(costCall.model,
                                             costCall.promptTokens,
                                             costCall.completionTokens)]
    /\ UNCHANGED <<procs, escapes, extraction, aiCosts, ratings, decks, files,
                   pages, insights, clock, runningJobs, logger, inv, claims,
                   faultsLeft, uploadsLeft, capTicks, ticksLeft>>

NextCost == CalculateCostReturns

SpecCost == InitCost /\ [][NextCost]_vars

\* ------------------------------------ the text pipeline on its own
\* Either pdf-parse has returned a text and a page count to
\* extractPDFText, or createPageDocuments is called with one page text.
InitText ==
    /\ procs = {1}
    /\ InitStore
    /\ escapes = 0
    /\ costCall = NoCall
    /\ runningJobs = [p \in procs |-> [j \in Jobs |-> FALSE]]
    /\ logger = [p \in procs |-> NewLogger]
    /\ inv = [p \in procs |-> [j \in Jobs |-> [s \in Slots |-> IdleInv]]]
    /\ faultsLeft = 0
    /\ uploadsLeft = 0
    /\ capTicks = FALSE
    /\ ticksLeft = 0
    /\ \E text \in Texts :
          \/ \E numpages \in 0..MaxNumPages :
                extraction = [NoExtraction EXCEPT !.state = "parsed",
                                                  !.from = "pdf",
                                                  !.text = text,
                                                  !.numpages = numpages]
          \/ extraction = [NoExtraction EXCEPT !.state = "extracted",
                                               !.from = "pages",
                                               !.pageTexts = <<text>>]

\* const pages = await extractPDFText(pdfBuffer)
ExtractPDFTextReturns ==
    /\ extraction.state = "parsed"
    /\ extraction' = [extraction EXCEPT
                         !.state = "extracted",
                         !.pageTexts = extractPDFText(extraction.text,
                                                      extraction.numpages)]
    /\ UNCHANGED <<procs, escapes, costCall, aiCosts, ratings, decks, files,
                   pages, insights, clock, runningJobs, logger, inv, claims,
                   faultsLeft, uploadsLeft, capTicks, ticksLeft>>

\* await createPageDocuments(deck.id, pages)
CreatePageDocumentsCommits ==
    /\ extraction.state = "extracted"
    /\ extraction' = [extraction EXCEPT
                         !.state = "created",
                         !.docs = createPageDocuments(extraction.pageTexts)]
    /\ UNCHANGED <<procs, escapes, costCall, aiCosts, ratings, decks, files,
                   pages, insights, clock, runningJobs, logger, inv, claims,
                   faultsLeft, uploadsLeft, capTicks, ticksLeft>>

\* update({status: ANALYZING, pageCount: pages.length, processedAt})
DeckAdvances ==
    /\ extraction.state = "created"
    /\ extraction.from = "pdf"
    /\ extraction' = [extraction EXCEPT
                         !.state = "analyzing",
                         !.status = ANALYZING,
                         !.pageCount = Len(extraction.pageTexts)]
    /\ UNCHANGED <<procs, escapes, costCall, aiCosts, ratings, decks, files,
                   pages, insights, clock, runningJobs, logger, inv, claims,
                   faultsLeft, uploadsLeft, capTicks, ticksLeft>>

NextText ==
    \/ ExtractPDFTextReturns
    \/ CreatePageDocumentsCommits
    \/ DeckAdvances

SpecText == InitText /\ [][NextText]_vars

\* ================================================================ claims

\* C1: in every reachable state of a scheduler process, each job name has
\* at most one invocation of its body in flight.
C1_AtMostOneInFlight ==
    \A p \in procs, j \in Jobs : Cardinality(InFlight(p, j)) <= 1

\* C1 witness: both jobs of the process are in flight at once, each
\* suspended on an awaited call (ticks of either job are being skipped).
C1_Witness ==
    \E p \in procs :
        /\ \A j \in Jobs : Cardinality(InFlight(p, j)) = 1 /\ runningJobs[p][j]
        /\ \E s \in Slots : inv[p][Extractor][s].pc = "findR"
        /\ \E s \in Slots : inv[p][Critic][s].pc = "ai"

\* C2: while an invocation of a job is in flight no step (no tick) starts
\* another invocation of that job; and whenever no invocation of the job is
\* in flight (none ran yet, or the last one returned or threw) the busy flag
\* is clear and a tick of that job, once the event loop takes it, runs the
\* body.
C2_NoStartWhileBusy ==
    \A p \in procs, j \in Jobs :
        InFlight(p, j) # {} => InFlight(p, j)' \subseteq InFlight(p, j)

C2_IdleMeansRunnable ==
    \A p \in procs, j \in Jobs :
        InFlight(p, j) = {} =>
            /\ ~runningJobs[p][j]
            /\ ~MicrotaskPending(p) => ENABLED TickRun(p, j)

C2_GuardedTicks == [][C2_NoStartWhileBusy]_vars /\ []C2_IdleMeansRunnable

\* C2 witness: an Extractor invocation has thrown out of its body (its
\* failure handler's write of 'error' threw, so the deck is still
\* 'extracting' and the Logger still holds it as deck context), and the job
\* is idle with its flag clear.
C2_Witness ==
    \E p \in procs, d \in Decks :
        /\ decks[d].status = EXTRACTING
        /\ GetDeckContext(logger[p]) = d
        /\ InFlight(p, Extractor) = {}
        /\ ~runningJobs[p][Extractor]

\* C11: with fair ticks every page of every deck that reaches 'analyzing'
\* eventually has a 'problem' Insight: the Critic's scan of the oldest
\* DeckScanLimit 'analyzing' decks starves no page.
C11_EveryPageCritiqued ==
    \A d \in Decks :
        (decks[d].status = ANALYZING)
            ~> (\A k \in 1..decks[d].pageCount : insights[d][k] > 0)

\* C12: with fair Extractor ticks every 'uploaded' deck is eventually
\* claimed by an Extractor (its status is written 'extracting'), oldest
\* upload first.
C12_EventuallyClaimed ==
    \A d \in Decks : (decks[d].status = UPLOADED) ~> (claims[d] > 0)

\* invocation s of job j of process p calls automationLogs.add() in this
\* step: the record is the session as serialized in the step's end state
IssuesAppend(p, j, s) ==
    inv[p][j][s].pc # "endAdd" /\ inv'[p][j][s].pc = "endAdd"

\* the invocation's endSession found no session and returns without a write
NoAppend(p, j, s) ==
    inv[p][j][s].pc \notin {"endAdd", "endR"} /\ inv'[p][j][s].pc = "endR"

\* C13: every invocation's endSession appends one automationLogs record,
\* that of the session the invocation started itself, and no session object
\* is passed to add() more than once, for every interleaving of an
\* Extractor and a Critic invocation of one process.
C13_OneRecordPerInvocation ==
    [][\A p \in procs, j \in Jobs, s \in Slots :
          /\ ~NoAppend(p, j, s)
          /\ IssuesAppend(p, j, s) =>
                 /\ logger'[p].session.action = SessionAction(j)
                 /\ logger'[p].session.appends = 1]_vars

\* the record is all the invocation's own
OwnRecord(rec, j, d) ==
    /\ rec.action = SessionAction(j)
    /\ rec.deckId = d
    /\ rec.logs \subseteq Messages(j)
    /\ \A i \in 1..Len(rec.errors) : rec.errors[i][1] = FailMessage(j)

\* C14: the Logger is one slot per process, so when an Extractor and a
\* Critic invocation overlap, the record persisted for one can hold log
\* entries, error strings or the deck id of the other (C14_Witness); the
\* record of an invocation that overlapped no other is all its own.
C14_MixedOnlyWhenOverlapping ==
    [][\A p \in procs, j \in Jobs, s \in Slots :
          IssuesAppend(p, j, s) /\ ~inv[p][j][s].overlap =>
              /\ OwnRecord(AutomationLog(logger'[p]), j, inv[p][j][s].deck)
              /\ ~inv'[p][j][s].mixed]_vars

\* C14 witness: an invocation has passed to add() a session record holding
\* content of the other job, and its append is pending.
C14_Witness ==
    \E p \in procs, j \in Jobs, s \in Slots :
        inv[p][j][s].pc = "endAdd" /\ inv[p][j][s].mixed

\* C15: Logger.endSession() called when no session is active (none was
\* started, or it was already ended) does not throw, writes no
\* automationLogs record and leaves the Logger's state unchanged.
C15_EndWithoutSession ==
    [][Caller.pc = "idle" /\ Caller'.pc # "idle"
          /\ logger[1].session = NoSession =>
              /\ Caller'.pc = "endR"
              /\ ~Caller'.failed
              /\ logger' = logger]_vars

\* C15 witness: endSession was called without a session while the log
\* buffer and the deck context were set, and has returned to its caller.
C15_Witness ==
    /\ Caller.pc = "endR"
    /\ logger[1].session = NoSession
    /\ logger[1].logs # {}
    /\ logger[1].deckContext # NoDeck

\* the session has recorded an error and was not yet passed to add()
ErrorRecorded(L) ==
    /\ L.session # NoSession
    /\ L.session.errors # <<>>
    /\ L.session.appends = 0

\* C16: after Logger.error in an active session the error list ends with
\* the pair (message, error message) and the status is 'failed'; endSession
\* without a status persists the session's status ('failed' after an
\* error), and only an explicit status replaces it.
C16_ErrorForcesFailed ==
    [][/\ ErrorRecorded(logger[1])' => logger'[1].session.status = "failed"
       /\ logger[1].session # NoSession /\ logger'[1].session # NoSession
             /\ Len(logger'[1].session.errors) > Len(logger[1].session.errors) =>
                 /\ logger'[1].session.errors[Len(logger'[1].session.errors)][1]
                        \in {FailMessage(j) : j \in Jobs}
                 /\ logger'[1].session.errors[Len(logger'[1].session.errors)][2]
                        \in ErrorTexts
                 /\ logger'[1].session.status = "failed"
       /\ IssuesAppend(1, Extractor, 1) =>
                 AutomationLog(logger'[1]).status =
                     IF Caller'.msg = NoStatus THEN logger[1].session.status
                     ELSE Caller'.msg]_vars

\* C16 witness: after an error, endSession was called without a status and
\* the record passed to add() has status 'failed'.
C16_Witness ==
    /\ Caller.pc = "endAdd"
    /\ Caller.msg = NoStatus
    /\ logger[1].session # NoSession
    /\ logger[1].session.errors # <<>>
    /\ logger[1].session.status = "failed"

\* C17: when the endSession of an active session returns, the Logger has no
\* session, an empty log buffer and an empty deck context, whether the
\* automationLogs append succeeded or failed, and a failed append is not
\* propagated to the caller.
C17_EndSessionClears ==
    [][\A p \in procs, j \in Jobs, s \in Slots :
          inv[p][j][s].pc = "endAdd" /\ inv'[p][j][s].pc # "endAdd" =>
              /\ logger'[p].session = NoSession
              /\ logger'[p].logs = {}
              /\ logger'[p].deckContext = NoDeck
              /\ inv'[p][j][s].pc = "endR"
              /\ inv'[p][j][s].failed = inv[p][j][s].failed]_vars

\* C17 witness: the append of an invocation that had not failed threw, and
\* endSession has returned with the Logger cleared.
C17_Witness ==
    \E p \in procs, j \in Jobs, s \in Slots :
        /\ inv[p][j][s].pc = "endR"
        /\ inv[p][j][s].lost
        /\ ~inv[p][j][s].failed
        /\ inv[p][j][s].deck # NoDeck
        /\ logger[p] = NewLogger

\* C18: when the automationLogs append of an invocation throws, the step
\* changes no deck, page, Insight or cost record and leaves the invocation
\* where a successful append leaves it; the invocation then goes on as after
\* a successful append and returns normally.
C18_LostLogChangesNothing ==
    /\ [][\A p \in procs, j \in Jobs, s \in Slots :
             /\ inv[p][j][s].pc = "endAdd" /\ inv'[p][j][s].pc # "endAdd"
                   /\ inv'[p][j][s].lost =>
                       /\ UNCHANGED <<decks, files, pages, insights, ratings,
                                      aiCosts, claims, runningJobs>>
                       /\ inv'[p][j][s] = [inv[p][j][s] EXCEPT !.pc = "endR",
                                                               !.lost = TRUE]
                       /\ logger'[p] = NewLogger
             /\ inv[p][j][s].pc = "endR" /\ inv'[p][j][s].pc # "endR"
                   /\ inv[p][j][s].lost =>
                       \/ inv'[p][j][s].pc = "idle" /\ ~runningJobs'[p][j]
                       \/ /\ j = Extractor /\ inv[p][j][s].failed
                          /\ inv'[p][j][s].pc = "errQ"]_vars
    /\ [](\A p \in procs, j \in Jobs, s \in Slots :
             inv[p][j][s].pc = "endR" => ENABLED EndSessionRet(p, j, s))

\* C18 witness: a Critic invocation wrote its Insight and its cost record,
\* its automationLogs append threw, and it is about to return normally.
C18_Witness ==
    \E p \in procs, s \in Slots :
        /\ inv[p][Critic][s].pc = "endR"
        /\ inv[p][Critic][s].lost
        /\ ~inv[p][Critic][s].failed
        /\ inv[p][Critic][s].made = 1
        /\ inv[p][Critic][s].costs = 1

\* the Critic invocation calls endSession({status: 'completed'}) in this step
CSucceeds(p, s) ==
    /\ inv[p][Critic][s].pc \in {"cntR", "complR"}
    /\ inv'[p][Critic][s].pc \in {"endAdd", "endR"}

\* C19: a Critic invocation that found a page and whose AI call and writes
\* all succeeded has created exactly one Insight, for the selected page and
\* with the rating the AI returned, and exactly one cost record for the same
\* deck and page; Insights are only created that way.
C19_OneInsightOneCost ==
    [][/\ \A p \in procs, s \in Slots :
             CSucceeds(p, s) =>
                 LET r == inv[p][Critic][s] IN
                 /\ r.made = 1 /\ r.costs = 1 /\ r.calls = 1
                 /\ insights[r.deck][r.page] >= 1
                 /\ r.rating \in ratings[r.deck][r.page]
                 /\ aiCosts[r.deck][r.page] >= 1
       /\ insights' # insights \/ ratings' # ratings =>
             \E p \in procs, s \in Slots :
                 LET r == inv[p][Critic][s] IN
                 /\ r.pc = "insAddQ" /\ inv'[p][Critic][s].pc = "insAddR"
                 /\ insights' = [insights EXCEPT ![r.deck][r.page] = @ + 1]
                 /\ ratings' = [ratings EXCEPT ![r.deck][r.page] =
                                                   @ \cup {r.rating}]]_vars

\* C19 witness: a successful invocation has ended its session; the page has
\* its one Insight with the rating 11 the AI returned and one cost record.
C19_Witness ==
    \E p \in procs, s \in Slots :
        LET r == inv[p][Critic][s] IN
        /\ r.pc = "endAdd" /\ ~r.failed
        /\ r.made = 1 /\ r.costs = 1 /\ r.rating = 11
        /\ insights[r.deck][r.page] = 1
        /\ ratings[r.deck][r.page] = {11}
        /\ aiCosts[r.deck][r.page] = 1

\* C20: every completion call the API answered has exactly one cost
\* record: when a Critic invocation ends its session it has written as many
\* cost records as it made calls, also when the response did not parse or
\* the cost append or the Insight write threw.
C20_OneCostPerCall ==
    \A p \in procs, s \in Slots :
        inv[p][Critic][s].pc \in {"endAdd", "endR"} =>
            inv[p][Critic][s].costs = inv[p][Critic][s].calls

\* C21: every persisted Insight has a rating in 1..10, whatever value the
\* AI's answer holds.
C21_RatingInRange ==
    \A d \in Decks, k \in PageNums : ratings[d][k] \subseteq 1..10

\* C22 (as stated): whenever a deck is 'analyzing' or 'complete' its Page
\* documents carry exactly the numbers 1..pageCount, each once.
C22_PagesExactlyOnce ==
    \A d \in Decks :
        decks[d].status \in {ANALYZING, COMPLETE} =>
            \A k \in PageNums :
                pages[d][k] = IF k <= decks[d].pageCount THEN 1 ELSE 0

\* C22 (amended): whenever a deck is 'analyzing' or 'complete' every number
\* in 1..pageCount is carried by at least one Page and by at most one Page
\* per scheduler process (exactly one with a single process), and no number
\* beyond pageCount is; the pages collection changes only by an Extractor's
\* batch adding the pages 1..n of its deck, so no Page is modified or
\* deleted after it was created.
C22_PagesComplete ==
    /\ [](\A d \in Decks :
             decks[d].status \in {ANALYZING, COMPLETE} =>
                 \A k \in PageNums :
                     IF k <= decks[d].pageCount
                     THEN pages[d][k] >= 1 /\ pages[d][k] <= Cardinality(procs)
                     ELSE pages[d][k] = 0)
    /\ [][pages' # pages =>
             \E p \in procs, s \in Slots :
                 LET r == inv[p][Extractor][s] IN
                 /\ r.pc = "batchQ" /\ inv'[p][Extractor][s].pc = "batchR"
                 /\ pages' = [pages EXCEPT ![r.deck] =
                        [k \in PageNums |-> IF k <= r.n THEN @[k] + 1 ELSE @[k]]]
          ]_vars

\* C22 witness: two processes extracted the same deck; it is 'analyzing'
\* with pageCount MaxPages2 and every page number is carried by two Pages.
C22_Witness ==
    \E d \in Decks :
        /\ decks[d].status = ANALYZING
        /\ decks[d].pageCount = MaxPages2
        /\ \A k \in 1..MaxPages2 : pages[d][k] = 2

\* the Critic invocation, having selected page k of deck d, fails in this step
CFails(p, s, d, k) ==
    /\ ~inv[p][Critic][s].failed /\ inv'[p][Critic][s].failed
    /\ inv[p][Critic][s].deck = d /\ inv[p][Critic][s].page = k
    /\ d # NoDeck

\* a failed Critic invocation that had selected page k of deck d
CFailed(d, k) ==
    \E p \in procs, s \in Slots :
        /\ inv[p][Critic][s].failed
        /\ inv[p][Critic][s].deck = d /\ inv[p][Critic][s].page = k

\* a Critic invocation has selected page k of deck d and calls the AI
CSelected(d, k) ==
    \E p \in procs, s \in Slots :
        /\ inv[p][Critic][s].pc = "ai"
        /\ inv[p][Critic][s].deck = d /\ inv[p][Critic][s].page = k

\* C23: when a Critic invocation fails the page it selected still has no
\* 'problem' Insight, and the failure changes no deck and no Page; no step
\* of a failed Critic invocation changes a deck or a Page; the page is
\* selected again by a later invocation.
C23_FailedCritiqueRetried ==
    /\ [][\A p \in procs, s \in Slots :
             /\ \A d \in Decks, k \in PageNums :
                    CFails(p, s, d, k) =>
                        insights'[d][k] = 0 /\ decks' = decks /\ pages' = pages
             /\ inv[p][Critic][s].failed /\ inv'[p][Critic][s] # inv[p][Critic][s]
                    /\ inv[p][Extractor] = inv'[p][Extractor] =>
                        decks' = decks /\ pages' = pages]_vars
    /\ \A d \in Decks, k \in PageNums : CFailed(d, k) ~> CSelected(d, k)

\* the Critic's pages query of the deck it is scanning is answered in this
\* step with every page 1..pageCount of the deck present
ReadsWholePageSet(p, s) ==
    LET r == inv[p][Critic][s] IN
    r.pc = "pagesQ" /\ inv'[p][Critic][s].pc = "pagesR" =>
        /\ Len(inv'[p][Critic][s].pgs) >= Head(r.snap).pageCount
        /\ \A k \in 1..Head(r.snap).pageCount : pages[Head(r.snap).id][k] >= 1

\* C24 (as stated): no Insight exists under a deck whose status is
\* 'uploaded' or 'extracting', and whenever the Critic reads the pages of a
\* deck it selected, all pageCount pages of the deck exist.
C24_NoEarlyInsight ==
    /\ [](\A d \in Decks, k \in PageNums :
             decks[d].status \in {UPLOADED, EXTRACTING} => insights[d][k] = 0)
    /\ [][\A p \in procs, s \in Slots : ReadsWholePageSet(p, s)]_vars

\* C24 (amended): no Insight exists under an 'uploaded' deck, nor under an
\* 'extracting' deck unless the deck was claimed by more than one scheduler
\* process (never with a single process); an Insight is only added to a
\* page that exists; and whenever the Critic reads the pages of a deck it
\* selected, all pageCount pages of the deck exist.
C24_InsightAfterExtraction ==
    /\ [](\A d \in Decks, k \in PageNums :
             insights[d][k] > 0 =>
                 /\ decks[d].status # UPLOADED
                 /\ (decks[d].status = EXTRACTING => claims[d] > 1)
                 /\ pages[d][k] > 0)
    /\ [][\A p \in procs, s \in Slots : ReadsWholePageSet(p, s)]_vars

\* C24 witness: the Critic has read all MaxPages pages of the deck it
\* selected while an Extractor invocation and a Critic invocation of the
\* process are both in flight.
C24_Witness ==
    \E p \in procs, s \in Slots, t \in Slots :
        LET r == inv[p][Critic][s] IN
        /\ r.pc = "pagesR"
        /\ Head(r.snap).pageCount = MaxPages
        /\ Len(r.pgs) = MaxPages
        /\ inv[p][Extractor][t].pc # "idle"

\* the work finder of the invocation found nothing: the body calls
\* endSession({status: 'no_items_found'}) in this step
NoWork(p, j, s) ==
    /\ inv[p][j][s].pc \in {"findR", "decksR", "pagesR", "insR"}
    /\ inv'[p][j][s].pc \in {"endAdd", "endR"}
    /\ ~inv'[p][j][s].failed

\* the invocation takes a step of its work finder
FinderStep(p, j, s) ==
    /\ inv[p][j][s].pc \in {"findQ", "findR", "decksQ", "decksR", "pagesQ",
                            "pagesR", "insQ", "insR"}
    /\ inv'[p][j][s].pc # inv[p][j][s].pc
    /\ inv'[p][j][s].pc # "claimQ"

\* C25: when the work finder of an invocation finds nothing, the invocation
\* has changed no deck, page, Insight or cost record, and it persists one
\* session with status 'no_items_found'.
C25_NoWorkPath ==
    [][\A p \in procs, j \in Jobs, s \in Slots :
          /\ FinderStep(p, j, s) =>
                 UNCHANGED <<decks, pages, insights, ratings, aiCosts>>
          /\ NoWork(p, j, s) =>
                 /\ IssuesAppend(p, j, s)
                 /\ AutomationLog(logger'[p]).status = "no_items_found"
                 /\ logger'[p].session.appends = 1]_vars

\* C26: the deck findDeckToExtract returns has status 'uploaded' when the
\* query is answered and no 'uploaded' deck was uploaded earlier; a claim
\* write is the update of the deck an invocation's query returned, and an
\* invocation issues it at most once (it is reached only from the query's
\* answer, and the query only from the start of the invocation).
C26_ClaimsOldestUploaded ==
    [][/\ \A p \in procs, s \in Slots :
             LET r == inv[p][Extractor][s]
                 q == inv'[p][Extractor][s]
             IN /\ r.pc = "findQ" /\ q.pc = "findR" /\ q.deck # NoDeck =>
                       /\ decks[q.deck].status = UPLOADED
                       /\ \A e \in Decks :
                              decks[e].status = UPLOADED => q.deck <= e
                /\ q.pc = "claimQ" /\ r.pc # "claimQ" =>
                       r.pc = "findR" /\ q.deck = r.deck
                /\ q.pc = "findR" /\ r.pc # "findR" => r.pc = "findQ"
                /\ q.pc = "findQ" /\ r.pc # "findQ" => r.pc = "idle"
       /\ claims' # claims =>
             \E p \in procs, s \in Slots :
                 LET r == inv[p][Extractor][s] IN
                 /\ r.pc = "claimQ" /\ inv'[p][Extractor][s].pc = "claimR"
                 /\ claims' = [claims EXCEPT ![r.deck] = @ + 1]
                 /\ decks'[r.deck].status = EXTRACTING]_vars

\* C26 witness: two decks were 'uploaded'; the Extractor has claimed the
\* older one and the younger one is still 'uploaded'.
C26_Witness ==
    \E p \in procs, s \in Slots, d \in Decks, e \in Decks :
        /\ d < e
        /\ inv[p][Extractor][s].pc = "claimR"
        /\ inv[p][Extractor][s].deck = d
        /\ decks[d].status = EXTRACTING
        /\ decks[e].status = UPLOADED

\* deck d has a Page without a 'problem' Insight
LacksInsight(d) == \E k \in PageNums : pages[d][k] > 0 /\ insights[d][k] = 0

\* deck e comes before deck d in the order of the Critic's decks query
ProcessedBefore(e, d) ==
    \/ decks[e].processedAt < decks[d].processedAt
    \/ decks[e].processedAt = decks[d].processedAt /\ e < d

C28_WrapperNeverRejects ==
    /\ [][\A p \in procs, s \in Slots :
             (/\ escapes' > escapes
              /\ inv[p][Extractor][s].pc = "errQ"
              /\ inv'[p][Extractor][s].pc = "idle") =>
                    /\ p \in procs'
                    /\ ~runningJobs'[p][Extractor]
                    /\ runningJobs'[p][Critic] = runningJobs[p][Critic]
                    /\ inv'[p][Critic] = inv[p][Critic]]_vars
    /\ [](escapes > 0 =>
             \A p \in DOMAIN runningJobs :
                 /\ p \in procs
                 /\ \A j \in Jobs :
                        ~GuardBusy(p, j) /\ ~MicrotaskPending(p) =>
                            ENABLED TickRun(p, j))

\* C28 witness: after an exception escaped the Extractor's body, a later
\* Extractor tick has run the body again while a Critic invocation is in
\* flight.
C28_Witness ==
    \E p \in procs :
        /\ escapes > 0
        /\ InFlight(p, Extractor) # {}
        /\ InFlight(p, Critic) # {}

\* C29: the busy flags are independent per job name.  While an invocation
\* of one job is in flight (suspended on a call that may never return) a
\* tick of that job is skipped and cannot run the body, whereas a tick of
\* the other job runs the body unless that job is busy itself; and a step
\* that starts or ends an invocation of one job leaves the other job's flag
\* and invocations' positions alone.
C29_HungJobOnly ==
    \A p \in procs, j \in Jobs :
        InFlight(p, j) # {} =>
            /\ ~ENABLED TickRun(p, j)
            /\ ~MicrotaskPending(p) => ENABLED TickSkip(p, j)
            /\ \A k \in Jobs \ {j} :
                   (InFlight(p, k) = {} /\ ~MicrotaskPending(p)) =>
                       ENABLED TickRun(p, k) /\ ~ENABLED TickSkip(p, k)

C29_OneFlagPerStep ==
    \A p \in procs, j \in Jobs :
        runningJobs'[p][j] # runningJobs[p][j] =>
            \A k \in Jobs \ {j} :
                /\ runningJobs'[p][k] = runningJobs[p][k]
                /\ \A s \in Slots : inv'[p][k][s].pc = inv[p][k][s].pc

C29_IndependentFlags == []C29_HungJobOnly /\ [][C29_OneFlagPerStep]_vars

\* C29 witness: a Critic invocation is suspended on the OpenAI call and an
\* Extractor invocation is suspended on its finder's query in the same
\* process: the tick of the one that started second ran the body while the
\* other was suspended.
C29_Witness ==
    \E p \in procs, s, t \in Slots :
        /\ inv[p][Critic][s].pc = "ai"
        /\ inv[p][Extractor][t].pc = "findQ"
        /\ runningJobs[p][Critic] /\ runningJobs[p][Extractor]

\* C30: for every model name that is not a key of the price table and all
\* token counts, calculateCost returns what it returns for 'gpt-4o-mini'
\* with the same counts (and it returns: it does not fail).
C30_FallbackLaw ==
    (costCall.state = "returned" /\ costCall.model \notin PricedModels) =>
        NumEquals(costCall.usd,
                  calculateCost("gpt-4o-mini", costCall.promptTokens,
                                costCall.completionTokens))

\* characters lo+1 .. hi of a text (0-based half-open [lo, hi)), empty when
\* hi <= lo
Slice(text, lo, hi) ==
    IF hi <= lo THEN <<>> ELSE [j \in 1..(hi - lo) |-> text[lo + j]]

\* ceil(L / N) as the least c with c * N >= L
CeilDiv(L, N) == CHOOSE c \in 0..L : c * N >= L /\ \A b \in 0..L : b * N >= L => c <= b

SliceLo(L, N, i) == (i - 1) * CeilDiv(L, N)
SliceHi(L, N, i) == Min(i * CeilDiv(L, N), L)

\* C31: for a text of length L and a page count N >= 1 the Extractor
\* produces exactly N pages numbered 1..N; page i is the trimmed slice
\* [(i-1)*ceil(L/N), min(i*ceil(L/N), L)) of the text, or the placeholder
\* '[Page i - No text extracted]' when the trimmed slice is empty; every
\* character of the text lies in exactly one slice; and the deck advances
\* to 'analyzing' with pageCount = N.
C31_PageSlices ==
    LET x == extraction
        L == Len(x.text)
        N == x.numpages
    IN (x.from = "pdf" /\ N >= 1 /\ x.state # "parsed") =>
          /\ Len(x.pageTexts) = N
          /\ \A i \in 1..N :
                LET t == Trim(Slice(x.text, SliceLo(L, N, i), SliceHi(L, N, i)))
                IN x.pageTexts[i] = IF t = <<>> THEN Placeholder(i) ELSE t
          /\ \A c \in 1..L :
                Cardinality({i \in 1..N :
                                SliceLo(L, N, i) < c /\ c <= SliceHi(L, N, i)}) = 1
          /\ x.state \in {"created", "analyzing"} =>
                /\ Len(x.docs) = N
                /\ \A i \in 1..N : /\ x.docs[i].pageNumber = i
                                   /\ x.docs[i].text = x.pageTexts[i]
          /\ x.state = "analyzing" =>
                x.status = ANALYZING /\ x.pageCount = N

\* C31 witness: a text whose length is no multiple of the page count was
\* cut into MaxNumPages pages, one of them lost whitespace to trim(), one
\* became the placeholder, and the deck advanced.
C31_Witness ==
    LET x == extraction
        L == Len(x.text)
        N == x.numpages
    IN /\ x.from = "pdf" /\ x.state = "analyzing"
       /\ N = MaxNumPages /\ L % N # 0
       /\ \E i \in 1..N :
             LET sl == Slice(x.text, SliceLo(L, N, i), SliceHi(L, N, i))
             IN x.pageTexts[i] # sl /\ x.pageTexts[i] = Trim(sl)
       /\ \E i \in 1..N : x.pageTexts[i] = Placeholder(i)

\* the number of maximal runs of non-whitespace characters of a text
Runs(text) ==
    Cardinality({i \in 1..Len(text) :
                    /\ text[i] \notin Whitespace
                    /\ i = 1 \/ text[i - 1] \in Whitespace})

\* C32: the wordCount stored on every Page is the number of maximal runs
\* of non-whitespace characters of its text; leading, trailing and repeated
\* whitespace yield no empty tokens.
C32_WordCount ==
    extraction.state \in {"created", "analyzing"} =>
        \A i \in 1..Len(extraction.docs) :
            extraction.docs[i].wordCount = Runs(extraction.docs[i].text)

\* C32 witness: a Page whose text has two words, repeated whitespace
\* between them and whitespace at the end, stored with wordCount 2.
C32_Witness ==
    /\ extraction.state = "created"
    /\ \E i \in 1..Len(extraction.docs) :
          LET t == extraction.docs[i].text IN
          /\ extraction.docs[i].wordCount = 2
          /\ t[Len(t)] \in Whitespace
          /\ \E k \in 1..(Len(t) - 1) :
                t[k] \in Whitespace /\ t[k + 1] \in Whitespace /\ k > 1
                /\ \E m \in (k + 2)..Len(t) : t[m] \notin Whitespace

\* C33: an Extractor invocation whose find query threw (it never found a
\* deck) changes no Deck document in any of its later steps, whatever deck
\* context a Critic invocation has put on the shared Logger.
C33_NoDeckNoMutation ==
    [][\A p \in procs, s \in Slots :
          LET r == inv[p][Extractor][s] IN
          (r.failed /\ r.msg = "find" /\ inv'[p][Extractor][s].pc # r.pc) =>
              decks' = decks]_vars

\* C34: the Extractor's failure handler writes 'error' only to the deck
\* its own invocation found and set out to claim: never to a deck that is
\* 'analyzing' or 'complete', nor to one another invocation is working on.
C34_ErrorOnlyOwnDeck ==
    [][\A p \in procs, s \in Slots :
          LET r == inv[p][Extractor][s] IN
          (r.pc = "errQ" /\ inv'[p][Extractor][s].pc = "errR") =>
              /\ r.target = r.deck
              /\ decks[r.target].status \notin {ANALYZING, COMPLETE}
              /\ \A q \in procs, j \in Jobs, t \in Slots :
                    (<<q, j, t>> # <<p, Extractor, s>>
                       /\ inv[q][j][t].pc # "idle") =>
                        inv[q][j][t].deck # r.target]_vars

\* C35: with a single scheduler process a deck whose status is 'complete'
\* has a 'problem' Insight for every page 1..pageCount.
C35_CompleteHasEveryInsight ==
    Cardinality(procs) = 1 =>
        \A d \in Decks :
            decks[d].status = COMPLETE =>
                \A k \in 1..decks[d].pageCount : insights[d][k] >= 1

\* C35 witness: a deck with MaxPages pages is 'complete', each page has its
\* Insight, and the Critic invocation that completed it has returned.
C35_Witness ==
    \E d \in Decks :
        /\ procs = {1}
        /\ decks[d].status = COMPLETE
        /\ decks[d].pageCount = MaxPages
        /\ \A k \in 1..MaxPages : insights[d][k] = 1
        /\ InFlight(1, Critic) = {}

\* the page numbers of deck d that have a 'problem' Insight
Critiqued(d) == {k \in PageNums : insights[d][k] > 0}

\* C36: with a single scheduler process the page numbers of a deck that
\* have a 'problem' Insight always form a prefix 1..k of its pages: no page
\* is critiqued before every lower-numbered page has its Insight, failed
\* and retried Critic invocations included.
C36_InsightsFormPrefix ==
    Cardinality(procs) = 1 =>
        \A d \in Decks :
            \E k \in 0..MaxPages :
                /\ Critiqued(d) = 1..k
                /\ Critiqued(d) # {} => k <= decks[d].pageCount

\* C36 witness: a call has thrown, the deck has Insights for all of its
\* MaxPages pages but the last, and a Critic invocation has selected the
\* last page and is suspended on the OpenAI call.
C36_Witness ==
    \E d \in Decks :
        /\ procs = {1}
        /\ faultsLeft < MaxFaults
        /\ decks[d].pageCount = MaxPages
        /\ Critiqued(d) = 1..(MaxPages - 1)
        /\ \E s \in Slots : /\ inv[1][Critic][s].pc = "ai"
                            /\ inv[1][Critic][s].page = MaxPages

\* C37: every persisted Insight has an AI Cost Record of the Critic's
\* 'critique_problem' action for the same deck and page, appended before
\* the Insight was written: there are never fewer cost records than
\* Insights for a page, an invocation issues the Insight write only after
\* its own cost append succeeded, and a failed cost append ends the
\* invocation in its failure handler without an Insight write.
C37_CostRecorded ==
    \A d \in Decks, k \in PageNums : aiCosts[d][k] >= insights[d][k]

C37_CostFirst ==
    \A p \in procs, s \in Slots :
        LET r == inv[p][Critic][s]
            n == inv'[p][Critic][s]
        IN /\ (r.pc = "insAddQ" /\ n.pc = "insAddR") =>
                  /\ r.costs >= 1
                  /\ aiCosts[r.deck][r.page] > insights[r.deck][r.page]
           /\ (r.pc = "cost" /\ n.pc # "cost" /\ aiCosts' = aiCosts) =>
                  n.failed /\ n.pc # "insAddQ" /\ insights' = insights
           /\ (r.failed /\ n.pc # "idle") => n.failed /\ insights' = insights

C37_CostBeforeInsight == []C37_CostRecorded /\ [][C37_CostFirst]_vars

\* C37 witness: page 1 of a deck has its Insight and its cost record, and
\* the invocation critiquing page 2 is in its failure handler because its
\* cost append threw: page 2 has neither a cost record nor an Insight.
C37_Witness ==
    \E d \in Decks, p \in procs, s \in Slots :
        /\ insights[d][1] >= 1 /\ aiCosts[d][1] >= 1
        /\ inv[p][Critic][s].deck = d
        /\ inv[p][Critic][s].page = 2
        /\ inv[p][Critic][s].failed /\ inv[p][Critic][s].msg = "cost"
        /\ aiCosts[d][2] = 0 /\ insights[d][2] = 0

\* the invocation reaches the end of its try block in this step: it calls
\* endSession({status: 'completed'})
Completes(p, j, s) ==
    /\ inv[p][j][s].pc \in {"anaR", "cntR", "complR"}
    /\ inv'[p][j][s].pc \in {"endAdd", "endR"}

\* the invocation's catch block runs in this step
Caught(p, j, s) ==
    /\ ~inv[p][j][s].failed /\ inv'[p][j][s].failed
    /\ inv'[p][j][s].pc \in {"endAdd", "endR"}

\* the writes of a complete run of the invocation are in the store
AllWritesDone(p, j, s) ==
    LET r == inv[p][j][s] IN
    IF j = Extractor
    THEN /\ decks[r.deck].status = ANALYZING
         /\ decks[r.deck].pageCount = r.n
         /\ \A k \in 1..r.n : pages[r.deck][k] >= 1
    ELSE /\ r.costs = 1 /\ r.made = 1
         /\ aiCosts[r.deck][r.page] >= 1
         /\ insights[r.deck][r.page] >= 1
         /\ r.pc = "complR" => decks[r.deck].status = COMPLETE

\* C38: an invocation that overlapped no other passes one session record to
\* add() and its status matches the outcome: 'completed' exactly when the
\* try block ran to its end, with all the invocation's writes in the store
\* (and, for the Extractor, the page count in the metadata); 'failed'
\* exactly when the catch block ran, with the one error pair of that
\* exception in the errors list; 'no_items_found' exactly when the work
\* finder returned nothing.
C38_StatusMatchesOutcome ==
    [][\A p \in procs, j \in Jobs, s \in Slots :
          ~inv[p][j][s].overlap =>
              /\ ~NoAppend(p, j, s)
              /\ (Completes(p, j, s) \/ Caught(p, j, s) \/ NoWork(p, j, s))
                     => IssuesAppend(p, j, s)
              /\ IssuesAppend(p, j, s) =>
                     LET rec == AutomationLog(logger'[p])
                         r == inv[p][j][s]
                     IN /\ rec.status = "completed" <=> Completes(p, j, s)
                        /\ rec.status = "failed" <=> Caught(p, j, s)
                        /\ rec.status = "no_items_found" <=> NoWork(p, j, s)
                        /\ Completes(p, j, s) => AllWritesDone(p, j, s)
                        /\ rec.metadata =
                               IF Completes(p, j, s) /\ j = Extractor
                               THEN r.n ELSE NoMetadata
                        /\ rec.errors =
                               IF Caught(p, j, s)
                               THEN <<<<FailMessage(j), inv'[p][j][s].msg>>>>
                               ELSE <<>>]_vars

\* C38 witness: an Extractor invocation that overlapped no other has passed
\* its session to add() with status 'completed' and the page count of its
\* two-page deck in the metadata.
C38_Witness ==
    \E p \in procs, s \in Slots :
        LET r == inv[p][Extractor][s] IN
        /\ r.pc = "endAdd" /\ ~r.overlap /\ ~r.failed
        /\ r.n = 2
        /\ logger[p].session # NoSession
        /\ logger[p].session.status = "completed"
        /\ logger[p].session.metadata = 2
        /\ decks[r.deck].status = ANALYZING

\* an Extractor invocation returns in this step (its slot becomes idle)
EReturns(p, s) ==
    inv[p][Extractor][s].pc # "idle" /\ inv'[p][Extractor][s].pc = "idle"

\* the page documents of deck d carry exactly the numbers 1..n, each once
PagesExactly(d, n) ==
    \A k \in PageNums : pages[d][k] = IF k <= n THEN 1 ELSE 0

\* C3: when an Extractor invocation that found a deck returns, the deck is
\* not left in 'uploaded' or 'extracting'; if it is 'analyzing' its
\* pageCount is N with exactly the pages 1..N, and if it is 'error' its
\* errorMessage is non-empty.
C3_ReturnLeavesNoLimbo ==
    [][\A p \in procs, s \in Slots :
          LET d == inv[p][Extractor][s].deck IN
          EReturns(p, s) /\ d # NoDeck =>
              /\ decks'[d].status \notin {UPLOADED, EXTRACTING}
              /\ decks'[d].status = ANALYZING =>
                     decks'[d].pageCount = files'[d] /\ PagesExactly(d, files[d])'
              /\ decks'[d].status = ERROR => decks'[d].errorMessage # ""]_vars

\* the awaited calls between the claim write and the 'analyzing' write
AfterClaim == {"download", "parse", "batch", "analyzing"}

\* an Extractor invocation that failed between the two writes returns
EFailedReturn(p, s) ==
    /\ EReturns(p, s)
    /\ inv[p][Extractor][s].failed
    /\ inv[p][Extractor][s].msg \in AfterClaim

\* deck d is 'extracting' and no Extractor invocation is working on it
Stranded(d) ==
    /\ decks[d].status = EXTRACTING
    /\ \A p \in procs, s \in Slots :
          inv[p][Extractor][s].pc = "idle" \/ inv[p][Extractor][s].deck # d

C5_OneInsightPerPage ==
    Cardinality(procs) = 1 =>
        \A d \in Decks, k \in PageNums : insights[d][k] <= 1

\* C5 witness: a call has failed, every page of an 'analyzing' deck has its
\* Insight but the deck was not marked complete (the completion check of
\* the invocation that wrote the last Insight failed), and a later Critic
\* invocation's existence check has found the Insight of a page.
C5_Witness ==
    \E d \in Decks, p \in procs, s \in Slots :
        /\ faultsLeft < MaxFaults
        /\ decks[d].status = ANALYZING /\ decks[d].pageCount = MaxPages
        /\ \A k \in PageNums : insights[d][k] = 1
        /\ inv[p][Critic][s].pc = "insR" /\ inv[p][Critic][s].cnt = 1

\* a page 1..pageCount of deck d has no Insight
MissingInsight(d) == \E k \in 1..decks[d].pageCount : insights[d][k] = 0

\* some page of deck d has more than one Insight
DuplicateInsight(d) == \E k \in PageNums : insights[d][k] > 1

\* C6: with two scheduler processes the Critic's check-then-insert races:
\* two 'problem' Insights for one page are reachable, and then the deck is
\* marked complete although another page has none (C6_Witness).  In every
\* reachable state a complete deck lacks an Insight for a page only when
\* another page has a duplicate, and no page has more Insights than there
\* are processes.
C6_IncompleteOnlyByDuplicate ==
    \A d \in Decks :
        /\ decks[d].status = COMPLETE /\ MissingInsight(d) => DuplicateInsight(d)
        /\ \A k \in PageNums : insights[d][k] <= Cardinality(procs)

\* C6 witness: two processes, a page of a complete deck has two Insights
\* and another of its pages has none.
C6_Witness ==
    \E d \in Decks :
        /\ procs = {1, 2}
        /\ decks[d].status = COMPLETE
        /\ DuplicateInsight(d)
        /\ MissingInsight(d)

\* C7: with two scheduler processes both Extractors can read the same
\* 'uploaded' deck before either claims it, both claim it and its pages are
\* written twice (C7_Witness); a deck receives at most one claim write per
\* process, so with a single process no deck is claimed more than once.
C7_ClaimsPerProcess ==
    \A d \in Decks :
        /\ claims[d] <= Cardinality(procs)
        /\ \A k \in PageNums : pages[d][k] <= Cardinality(procs)

\* C7 witness: two processes, the deck was claimed twice and each of its
\* pages exists twice.
C7_Witness ==
    \E d \in Decks :
        /\ procs = {1, 2}
        /\ claims[d] = 2
        /\ files[d] = MaxPages2
        /\ \A k \in 1..MaxPages2 : pages[d][k] = 2

\* the status moves of section 6: uploaded -> extracting -> analyzing ->
\* complete, 'error' from 'extracting' or 'analyzing' (and creation)
AllowedMoves ==
    {<<ABSENT, UPLOADED>>, <<UPLOADED, EXTRACTING>>, <<EXTRACTING, ANALYZING>>,
     <<ANALYZING, COMPLETE>>, <<EXTRACTING, ERROR>>, <<ANALYZING, ERROR>>}

\* C8: Deck.status only moves along uploaded -> extracting -> analyzing ->
\* complete, 'error' is entered only from 'extracting' or 'analyzing', no
\* actor moves a deck backwards and 'complete' is never left.
C8_StatusMachine ==
    [][\A d \in Decks :
          decks'[d].status # decks[d].status =>
              <<decks[d].status, decks'[d].status>> \in AllowedMoves]_vars

\* C9: when the Critic's completion check decides for a deck, it issues the
\* update to 'complete' exactly when the deck's Insight count is at least
\* its pageCount, and the update, once applied, sets the status; when the
\* count is below pageCount the check changes no deck.  No other step makes
\* a deck 'complete'.
C9_CheckDecides ==
    \A p \in procs, s \in Slots :
        LET r == inv[p][Critic][s] IN
        r.pc = "cntR" /\ inv'[p][Critic][s].pc # "cntR" =>
            /\ decks' = decks
            /\ inv'[p][Critic][s].pc = "complQ"
                   <=> CollSize(insights[r.deck]) >= decks[r.deck].pageCount

C9_UpdateCompletes ==
    \A d \in Decks :
        decks'[d].status = COMPLETE /\ decks[d].status # COMPLETE
            <=> \E p \in procs, s \in Slots :
                   /\ inv[p][Critic][s].pc = "complQ"
                   /\ inv[p][Critic][s].deck = d
                   /\ decks[d].status # COMPLETE
                   /\ inv'[p][Critic][s].pc = "complR"

C9_CompletionCheck == [][C9_CheckDecides /\ C9_UpdateCompletes]_vars

\* C9 witness: the completion check of a deck with MaxPages pages and
\* MaxPages Insights has run and its update made the deck 'complete'.
C9_Witness ==
    \E d \in Decks, p \in procs, s \in Slots :
        /\ inv[p][Critic][s].pc = "complR"
        /\ inv[p][Critic][s].deck = d
        /\ decks[d].pageCount = MaxPages
        /\ CollSize(insights[d]) = MaxPages
        /\ decks[d].status = COMPLETE

\* C10: once every page of an 'analyzing' deck has a 'problem' Insight the
\* deck eventually becomes 'complete' (fair ticks, calls that return).
C10_EventuallyComplete ==
    \A d \in Decks :
        (decks[d].status = ANALYZING /\ ~MissingInsight(d))
            ~> (decks[d].status = COMPLETE)

====
